---- MODULE Spec2Model ----
(***************************************************************************)
(* State-machine model of the chord-diagram component (src/js/fretboard.js) *)
(* and of its control panel (src/unnamed/part_000).                         *)
(*                                                                          *)
(* The diagram keeps its settings in module-level variables and its dots   *)
(* in the DOM.  The DOM of one rendering target is modelled sparsely: the   *)
(* set of positions whose dot carries the class "active", the set of        *)
(* strings whose muted marker at the open position is active, and the       *)
(* data-finger attribute of the positions that have one.  Removal timers    *)
(* (setTimeout 200 ms) close over DOM elements; all of them use the same    *)
(* delay, so they fire in the order they were created.                      *)
(***************************************************************************)
EXTENDS Integers, Sequences, FiniteSets, TLC

\* ------------------------------------------------------------- bounds
\* Number of API calls and clicks explored in one behaviour.
MaxOps == 3

\* Clicks explored in one behaviour of a page that is only clicked.
MaxClicks == 4

\* Runs of the sync interval explored in one behaviour.
MaxTicks == 2

\* Instance records one target's panel gets in one behaviour.
MaxPanels == 2

\* ------------------------------------------------------- JS values
\* A JavaScript value of a fingering entry's fret or finger: a number, or
\* one of the non-numbers the code tests for.
Num(n) == [k |-> "num", v |-> n]

NoneStr == [k |-> "none", v |-> 0]

Undef == [k |-> "undefined", v |-> 0]

NaNv == [k |-> "NaN", v |-> 0]

\* null for the string-valued settings (name, root, customCSS)
NULL == "<null>"

\* String(finger), as stored in the data-finger attribute
StringOf(j) == IF j.k = "num" THEN [k |-> "digits", v |-> j.v] ELSE [k |-> "text", v |-> 0]

\* parseInt(fingerData): digits parse to a number, any other text to NaN
ParseInt(a) == IF a.k = "digits" THEN Num(a.v) ELSE NaNv

Entry(s, f, g) == [string |-> s, fret |-> f, finger |-> g]

Min(a, b) == IF a < b THEN a ELSE b

\* ---------------------------------------------------- the document
Targets == {"X", "Y"}

\* the containers of the targets, in document order
DocOrder == <<"X", "Y">>

NumFretRows == 24

RowStringCap == 10

TimerDelay == 200

VARIABLES
    settingsGroupA,      \* module-level store, one copy for every target
    settingsGroupB,
    settingsGroupC,
    TUNING,
    STRING_TYPE,
    DOT_TEXT_MODE,
    CURRENT_CHORD_ROOT,
    START_FRET,
    isInitialized,
    rootStyle,           \* custom properties on document.documentElement
    fretboardInstances,  \* registry: target -> instance record
    dom,                 \* target -> rendered rows and dots
    timers,              \* pending removal timers, oldest first
    layout,              \* target -> the height the layout gives its wrapper
    frames,              \* pending requestAnimationFrame callbacks, oldest first
    geometryRan,         \* what the step before ran of the geometry
    lastCall,            \* the call or click handled last
    ops,                 \* calls made so far
    panel,               \* the control panel: its instance record and fields
    focus,               \* document.activeElement
    panelTimers,         \* pending timers of the panel, oldest first
    ticks,               \* runs of the panel's sync interval so far
    exported,            \* what the export modal was opened with
    importOutcome,       \* what the last import attempt showed
    syncIntervals,       \* the ids of the live setInterval timers of the panel
    repeated,            \* history: the call just made repeats the call before it
    shrunk,              \* history: the markers a target had when its number of
                         \* strings was last lowered, until the next call
    clearedSince         \* history: the targets clearChord was called for, with
                         \* no click and no call that displays a chord since

fbVars == <<settingsGroupA, settingsGroupB, settingsGroupC, TUNING, STRING_TYPE,
            DOT_TEXT_MODE, CURRENT_CHORD_ROOT, START_FRET, isInitialized, rootStyle,
            fretboardInstances, dom, timers, layout, frames, geometryRan>>

vars == <<fbVars, lastCall, ops, clearedSince, shrunk, repeated, panel, focus, panelTimers, ticks, exported, importOutcome, syncIntervals>>

\* nothing of the geometry ran yet: heights holds the targets
\* applyFretHeights was entered for, wrote those it wrote row heights for,
\* rows those whose rows 1..24 were created again
NoRun == [heights |-> {}, wrote |-> {}, rows |-> {}]

\* The state of fretboard.js as one record, so that the functions of the
\* source compose the way they call each other.
World == [A |-> settingsGroupA, B |-> settingsGroupB, C |-> settingsGroupC,
          TUNING |-> TUNING, STRING_TYPE |-> STRING_TYPE, DOT_TEXT_MODE |-> DOT_TEXT_MODE,
          ROOT |-> CURRENT_CHORD_ROOT, START_FRET |-> START_FRET,
          isInitialized |-> isInitialized, css |-> rootStyle,
          inst |-> fretboardInstances, dom |-> dom, timers |-> timers,
          layout |-> layout, frames |-> frames, ran |-> NoRun,
          notified |-> {}]

CommitStore(W) ==
    /\ settingsGroupA' = W.A
    /\ settingsGroupB' = W.B
    /\ settingsGroupC' = W.C
    /\ TUNING' = W.TUNING
    /\ STRING_TYPE' = W.STRING_TYPE
    /\ DOT_TEXT_MODE' = W.DOT_TEXT_MODE
    /\ CURRENT_CHORD_ROOT' = W.ROOT
    /\ START_FRET' = W.START_FRET
    /\ isInitialized' = W.isInitialized
    /\ rootStyle' = W.css
    /\ fretboardInstances' = W.inst
    /\ dom' = W.dom
    /\ timers' = W.timers
    /\ layout' = W.layout
    /\ frames' = W.frames
    /\ geometryRan' = W.ran

\* ------------------------------------------------------- DOM helpers
EmptyFn == [p \in {} |-> 0]

\* tuning: null
NullTuning == [i \in {0} |-> NULL]

CHROMATIC_SCALE == <<"C", "C#", "D", "D#", "E", "F", "F#", "G", "G#", "A", "A#", "B">>

\* getNoteAtFret(stringIndex, fret) over the table TUNING: NULL stands for
\* every value that is not a note (no open note, or an index outside the
\* scale).  indexOf gives -1 for an open note the scale does not hold, and
\* % keeps the sign of -1 + 0.
getNoteAtFret(tuning, stringIndex, fret) ==
    IF stringIndex \notin DOMAIN tuning \/ tuning[stringIndex] \in {"", NULL} THEN NULL
    ELSE LET openNote == tuning[stringIndex]
             found == {i \in 1..12 : CHROMATIC_SCALE[i] = openNote}
             openNoteIndex == IF found = {} THEN -1 ELSE (CHOOSE i \in found : TRUE) - 1
             sum == openNoteIndex + fret
         IN  IF sum < 0 THEN NULL ELSE CHROMATIC_SCALE[(sum % 12) + 1]

\* what a .dot_text element shows: a note, a finger value, or nothing
NoteText(note) == [k |-> "note", v |-> note]

EmptyText == [k |-> "empty", v |-> 0]

TextOf(D, p) == IF p \in DOMAIN D.text THEN D.text[p] ELSE EmptyText

\* getAttribute('data-note'): NULL when the attribute is not set
NoteAttr(D, p) == IF p \in DOMAIN D.note THEN D.note[p] ELSE NULL

Override(f, g) == [x \in (DOMAIN f) \cup (DOMAIN g) |-> IF x \in DOMAIN g THEN g[x] ELSE f[x]]

Restrict(f, S) == [x \in (DOMAIN f) \cap S |-> f[x]]

Has(r, key) == key \in DOMAIN r

\* F applied to the value of e, with e evaluated once
Bind(e, F(_)) == CHOOSE r \in {F(x) : x \in {e}} : TRUE

DotEl(t, p) == [t |-> t, kind |-> "dot", fret |-> p[1], string |-> p[2]]

UnplayedEl(t, s) == [t |-> t, kind |-> "unplayed", fret |-> 0, string |-> s]

\* number of string columns of the row of a fret in target t
Cols(D, fret) == IF fret = 0 THEN D.cols0 ELSE D.colsN

\* the row element exists: fret 0 is static, rows 1..24 are generated
RowExists(fret) == fret \in 0..NumFretRows

\* setTimeout(..., 200) for the elements one handler collected
Schedule(W0, els) ==
    Bind(W0, LAMBDA W : IF els = {} THEN W ELSE [W EXCEPT !.timers = Append(@, els)])

\* Replaced elements are detached: a timer closing over one of them no
\* longer changes anything that can be read back.
Detach(W0, t, frets) ==
    Bind(W0, LAMBDA W :
        LET keep(b) == {e \in b : ~(e.t = t /\ e.fret \in frets)}
            kept == [i \in 1..Len(W.timers) |-> keep(W.timers[i])]
        IN  [W EXCEPT !.timers = SelectSeq(kept, LAMBDA b : b # {})])

\* document.querySelector('[id$="_chord_builder_wrapper"]'): the wrapper
\* that comes first in the document
FirstWrapper(W) ==
    DocOrder[CHOOSE i \in 1..Len(DocOrder) :
                 /\ DocOrder[i] \in DOMAIN W.dom
                 /\ \A j \in 1..(i - 1) : DocOrder[j] \notin DOMAIN W.dom]

\* ------------------------------------------------ rows of one target
\* parseInt(getPropertyValue('--num-strings')) || 6
CssNumStrings(W) == IF W.css.numStrings = 0 THEN 6 ELSE W.css.numStrings

\* the rows inside the fret window that generateFretRows leaves displayed
VisibleFrets(W) ==
    LET startFret == IF W.css.startFret = 0 THEN W.START_FRET ELSE W.css.startFret
        numFrets == IF W.css.numFrets = 0 THEN 4 ELSE W.css.numFrets
    IN  {i \in startFret..(startFret + numFrets - 1) : i >= 1 /\ i <= NumFretRows}

\* generateFretRows(forceRegenerate, fretboardId): with force the rows 1..24
\* are removed and created again, each with min(--num-strings, 10) string
\* columns, no active dot and no height of its own; so are they when the
\* wrapper has none yet; otherwise the existing rows are only shown or
\* hidden.
generateFretRows(W0, force, t) ==
    Bind(W0, LAMBDA W :
        IF force \/ ~W.dom[t].hasRows
        THEN Detach([W EXCEPT !.dom[t].colsN = Min(CssNumStrings(W), RowStringCap),
                              !.dom[t].hasRows = TRUE,
                              !.dom[t].rowHeight = EmptyFn,
                              !.ran.rows = @ \cup {t},
                              !.dom[t].dots = {p \in @ : p[1] = 0},
                              !.dom[t].finger = Restrict(@, {p \in DOMAIN @ : p[1] = 0}),
                              !.dom[t].note = Restrict(@, {p \in DOMAIN @ : p[1] = 0}),
                              !.dom[t].text = Restrict(@, {p \in DOMAIN @ : p[1] = 0}),
                              !.dom[t].window = VisibleFrets(W)],
                    t, 1..NumFretRows)
        ELSE [W EXCEPT !.dom[t].window = VisibleFrets(W)])

\* ---------------------------------------------------------- geometry
\* a height of the wrapper once the page is laid out, in px
LaidOutHeight == 400

\* --header-height and --fret-0-height as the stylesheet sets them, in px
SheetPx == ("--header-height" :> 40) @@ ("--fret-0-height" :> 30)

\* parseFloat(value) || 0 for the values the model is given
PxOrZero(value) ==
    CASE value = "30px" -> 30
      [] value = "500px" -> 500
      [] OTHER -> 0

\* parseFloat(getComputedStyle(document.documentElement).getPropertyValue(key))
\* || 0: the property set on the root element, else the stylesheet's
ComputedPx(W, key) ==
    IF key \in DOMAIN W.css.vars /\ W.css.vars[key] # ""
    THEN PxOrZero(W.css.vars[key])
    ELSE SheetPx[key]

\* every fret as high as the first
FretRatioPowEqual(fretNumber) == 943874

\* Math.pow(fretRatio, fretNumber) with fretRatio = 2^(-1/12), in millionths
FretRatioPow(fretNumber) ==
    <<943874, 890899, 840896, 793701, 749154, 707107, 667420, 629961, 594604, 561231,
      529732, 500000, 471937, 445449, 420448, 396850, 374577, 353553, 333710, 314980,
      297302, 280616, 264866, 250000>>[fretNumber]

\* ratioSum: the sum of the powers over the rows of allFretRows after the
\* first
RECURSIVE RatioSum(_)
RatioSum(frets) ==
    IF frets = {} THEN 0
    ELSE LET f == CHOOSE g \in frets : TRUE
         IN  FretRatioPow(f) + RatioSum(frets \ {f})

\* applyFretHeights(fretboardId).  allFretRows is the open-position row and
\* the displayed rows of the fret window; every row but the first gets
\* --fret-row-height = availableHeight * r^fret / ratioSum with
\* r = 2^(-1/12), kept as the fraction num / den together with the
\* available height and the frets of the sum.
applyFretHeights(W0, t) ==
    Bind(W0, LAMBDA W :
        IF ~Has(W.dom, t) THEN W
        ELSE LET actualHeight == W.layout[t]
                 headerHeight == ComputedPx(W, "--header-height")
                 fret0Height == ComputedPx(W, "--fret-0-height")
                 summed == W.dom[t].window
                 availableHeight == actualHeight - headerHeight - fret0Height
                 entered == [W EXCEPT !.ran.heights = @ \cup {t}]
             IN  IF actualHeight <= 0 \/ fret0Height <= 0
                 THEN [entered EXCEPT !.frames = Append(@, t)]
                 ELSE IF availableHeight <= 0 \/ summed = {} THEN entered
                 ELSE [entered EXCEPT
                          !.dom[t].rowHeight =
                              Override(@, [f \in summed |->
                                              [avail |-> availableHeight, over |-> summed,
                                               num |-> availableHeight * FretRatioPow(f),
                                               den |-> RatioSum(summed)]]),
                          !.ran.wrote = @ \cup {t}])

\* applyFretHeights(): the wrapper that comes first in the document
applyFretHeightsOfFirst(W) == applyFretHeights(W, FirstWrapper(W))

\* the callbacks queued for the next animation frame run in order; what
\* they queue waits for the frame after
RECURSIVE RunFrames(_, _)
RunFrames(W, pending) ==
    IF pending = <<>> THEN W
    ELSE RunFrames(applyFretHeights(W, Head(pending)), Tail(pending))

animationFrame(W) == RunFrames([W EXCEPT !.frames = <<>>], W.frames)

\* the custom properties updateSettingsGroupA takes for dimensions
dimensionVars ==
    {"--fretboard-width", "--fretboard-height", "--header-height", "--fret-0-height",
     "--string-thickest-width", "--string-thinnest-width", "--dot-size", "--num-strings"}

\* initializeDynamicStrings(fretboardId): header, open-position row and nut
\* are rewritten with --num-strings columns
initializeDynamicStrings(W0, t) ==
    Bind(W0, LAMBDA W :
        Detach([W EXCEPT !.dom[t].cols0 = CssNumStrings(W),
                         !.dom[t].dots = {p \in @ : p[1] # 0},
                         !.dom[t].unplayed = {},
                         !.dom[t].finger = Restrict(@, {p \in DOMAIN @ : p[1] # 0}),
                         !.dom[t].note = Restrict(@, {p \in DOMAIN @ : p[1] # 0}),
                         !.dom[t].text = Restrict(@, {p \in DOMAIN @ : p[1] # 0})],
               t, {0}))

\* -------------------------------------------------------- dot state
NoAttr == [k |-> "absent", v |-> 0]

FingerAttr(D, p) == IF p \in DOMAIN D.finger THEN D.finger[p] ELSE NoAttr

\* saveDotState(fretboardId): one record per active dot; a wrapper whose
\* dot is not active but whose muted marker is, is saved with fret -1 when
\* its row is the open position
saveDotState(D) ==
    {[fret |-> p[1], string |-> p[2], type |-> "dot", fingerData |-> FingerAttr(D, p),
      text |-> TextOf(D, p), noteData |-> NoteAttr(D, p)] :
        p \in D.dots}
    \cup
    {[fret |-> -1, string |-> s, type |-> "unplayed", fingerData |-> NoAttr,
      text |-> EmptyText, noteData |-> NULL] :
        s \in {u \in D.unplayed : <<0, u>> \notin D.dots}}

\* restoreDotState(fretboardId): each saved record is looked up by the row
\* of its fret and the wrapper of its string
restoreDotState(D, saved) ==
    LET found == {st \in saved : RowExists(st.fret) /\ st.string >= 1
                                  /\ st.string <= Cols(D, st.fret)}
        dotsBack == {st \in found : st.type = "dot"}
        muteBack == {st \in found : st.type = "unplayed" /\ st.fret = 0}
        withAttr == {st \in dotsBack : st.fingerData.k # "absent"}
        attrs == [p \in {<<st.fret, st.string>> : st \in withAttr} |->
                     (CHOOSE st \in withAttr : <<st.fret, st.string>> = p).fingerData]
        withNote == {st \in dotsBack : st.noteData # NULL}
        notes == [p \in {<<st.fret, st.string>> : st \in withNote} |->
                     (CHOOSE st \in withNote : <<st.fret, st.string>> = p).noteData]
        texts == [p \in {<<st.fret, st.string>> : st \in dotsBack} |->
                     (CHOOSE st \in dotsBack : <<st.fret, st.string>> = p).text]
    IN  [D EXCEPT !.dots = @ \cup {<<st.fret, st.string>> : st \in dotsBack},
                  !.unplayed = @ \cup {st.string : st \in muteBack},
                  !.finger = Override(@, attrs),
                  !.note = Override(@, notes),
                  !.text = Override(@, texts)]

RECURSIVE SortedSeq(_)
SortedSeq(S) ==
    IF S = {} THEN <<>>
    ELSE LET m == CHOOSE x \in S : \A y \in S : x <= y
         IN  <<m>> \o SortedSeq(S \ {m})

\* getFingeringFromDotState(fretboardId): rows in document order, wrappers
\* in string order; an active dot gives {string, fret, finger}, otherwise an
\* active muted marker in the open-position row gives fret -1, finger 0
getFingeringFromDotState(D) ==
    LET key(fret, s) == fret * 100 + s
        keys == {key(p[1], p[2]) : p \in D.dots} \cup {key(0, s) : s \in D.unplayed}
        order == SortedSeq(keys)
        entryAt(kk) ==
            LET fret == kk \div 100
                s == kk % 100
                fingerData == FingerAttr(D, <<fret, s>>)
            IN  IF <<fret, s>> \in D.dots
                THEN Entry(s, Num(fret),
                           IF fingerData.k = "absent" THEN Num(0) ELSE ParseInt(fingerData))
                ELSE Entry(s, Num(-1), Num(0))
    IN  [i \in 1..Len(order) |-> entryAt(order[i])]

\* setChordConfiguration(startFret, numFrets, fretboardId)
setChordConfiguration(W0, startFret, numFrets, t) ==
    Bind([W0 EXCEPT !.START_FRET = startFret,
                    !.css.startFret = startFret,
                    !.css.numFrets = numFrets], LAMBDA W1 :
        IF W1.isInitialized
        THEN Bind(saveDotState(W1.dom[t]), LAMBDA saved :
             Bind(applyFretHeights(generateFretRows(W1, FALSE, t), t), LAMBDA W2 :
                 [W2 EXCEPT !.dom[t] = restoreDotState(W2.dom[t], saved)]))
        ELSE applyFretHeights(generateFretRows(W1, FALSE, t), t))

\* clearChord(fretboardId): every active dot and muted marker of the target
\* gets a removal timer; the root is forgotten
clearChord(W0, t) ==
    Bind(W0, LAMBDA W :
        LET D == W.dom[t]
            els == {DotEl(t, p) : p \in D.dots} \cup {UnplayedEl(t, s) : s \in D.unplayed}
        IN  [Schedule(W, els) EXCEPT !.ROOT = NULL])

\* clearStringDots(stringNumber): document.querySelectorAll over the rows of
\* every target
clearStringDots(W0, s) ==
    Bind(W0, LAMBDA W :
        LET els == UNION {{DotEl(t, p) : p \in {q \in W.dom[t].dots : q[2] = s}}
                          \cup {UnplayedEl(t, u) : u \in W.dom[t].unplayed \cap {s}} :
                          t \in DOMAIN W.dom}
        IN  Schedule(W, els))

\* ----------------------------------------------------- displayChord
\* one iteration of fingering.forEach in displayChord
PlaceEntry(D, e, tuning, displayMode) ==
    IF e.fret.k # "num" THEN D
    ELSE IF e.fret.v = -1
    THEN IF e.string >= 1 /\ e.string <= D.cols0
         THEN [D EXCEPT !.unplayed = @ \cup {e.string}]
         ELSE D
    ELSE IF RowExists(e.fret.v) /\ e.string >= 1 /\ e.string <= Cols(D, e.fret.v)
    THEN LET p == <<e.fret.v, e.string>>
             note == getNoteAtFret(tuning, e.string, e.fret.v)
         IN  [D EXCEPT !.dots = @ \cup {p},
                       !.finger = IF e.finger.k \in {"undefined", "null"}
                                  THEN @
                                  ELSE Override(@, [q \in {p} |-> StringOf(e.finger)]),
                       !.text = IF displayMode = "finger" /\ e.finger.k # "undefined"
                                THEN Override(@, [q \in {p} |->
                                         IF e.finger.k = "null" THEN EmptyText
                                         ELSE StringOf(e.finger)])
                                ELSE IF displayMode = "note" /\ note # NULL
                                THEN Override(@, [q \in {p} |-> NoteText(note)])
                                ELSE @]
    ELSE D

RECURSIVE PlaceAll(_, _, _, _)
PlaceAll(D, fingering, tuning, displayMode) ==
    IF fingering = <<>> THEN D
    ELSE Bind(PlaceEntry(D, Head(fingering), tuning, displayMode),
              LAMBDA D2 : PlaceAll(D2, Tail(fingering), tuning, displayMode))

MaxOf(S) == CHOOSE x \in S : \A y \in S : y <= x

\* displayChord(chordConfig, fretboardId).  A numStrings of 0 stands for
\* null.  TUNING is overridden by the chord's tuning (by default the stored
\* one) while the dots are placed and restored before the function
\* returns; displayMode is DOT_TEXT_MODE for the chords given here.
displayChord(W0, chordConfig, t) ==
    Bind(clearChord(W0, t), LAMBDA W1 :
    LET root == IF Has(chordConfig, "root") THEN chordConfig.root ELSE NULL
        fingering == IF Has(chordConfig, "fingering") THEN chordConfig.fingering ELSE <<>>
        numStrings == IF Has(chordConfig, "numStrings") THEN chordConfig.numStrings
                      ELSE W1.A.numStrings
        stringType == IF Has(chordConfig, "stringType") THEN chordConfig.stringType
                      ELSE W1.A.stringType
        startFret == IF Has(chordConfig, "startFret") THEN chordConfig.startFret ELSE 1
        numFrets == IF Has(chordConfig, "numFrets") THEN chordConfig.numFrets ELSE 4
        tuning == IF Has(chordConfig, "tuning") THEN chordConfig.tuning ELSE W1.A.tuning
        placing == IF tuning = NullTuning THEN W1.TUNING ELSE Override(W1.TUNING, tuning)
        valid == {i \in 1..Len(fingering) : fingering[i].fret.k = "num"}
        calculatedNumStrings ==
            IF numStrings = 0 /\ valid # {}
            THEN MaxOf({fingering[i].string : i \in valid})
            ELSE numStrings
        regenStrings == calculatedNumStrings # 0 /\ CssNumStrings(W1) # calculatedNumStrings
        targetStringType == IF stringType # NULL THEN stringType ELSE "1"
        regenType == W1.STRING_TYPE # targetStringType
    IN  Bind([W1 EXCEPT !.ROOT = root,
                        !.css.numStrings = IF regenStrings THEN calculatedNumStrings ELSE @,
                        !.STRING_TYPE = targetStringType], LAMBDA W2 :
        Bind(IF regenStrings \/ regenType
             THEN applyFretHeights(
                      generateFretRows(initializeDynamicStrings(W2, t), TRUE, t), t)
             ELSE W2, LAMBDA W3 :
        Bind(setChordConfiguration(W3, startFret, numFrets, t), LAMBDA W4 :
            [W4 EXCEPT !.dom[t] = PlaceAll(W4.dom[t], fingering, placing, W1.DOT_TEXT_MODE),
                       !.notified = @ \cup {t}]))))

\* ----------------------------------------------------- click handler
\* updateDotContent(dot, fretRow, stringIndex) for the dot of position p
updateDotContent(W, t, p) ==
    LET note == getNoteAtFret(W.TUNING, p[2], p[1])
    IN  IF note = NULL THEN W
        ELSE [W EXCEPT !.dom[t].note = Override(@, [q \in {p} |-> note]),
                       !.dom[t].text = Override(@, [q \in {p} |->
                           IF W.DOT_TEXT_MODE = "note" THEN NoteText(note) ELSE EmptyText])]

\* clickHandler of addDotInteractivity: a click on the wrapper of (fret,
\* string) of target t; onUnplayed says the click hit the muted marker.
clickHandler(W, t, fret, s, onUnplayed) ==
    LET D == W.dom[t]
        p == <<fret, s>>
        dotActive == p \in D.dots
        unplayedActive == s \in D.unplayed
        clicked ==
            IF fret = 0
            THEN IF onUnplayed
                 THEN IF ~unplayedActive
                      THEN LET W1 == Schedule(W, IF dotActive THEN {DotEl(t, p)} ELSE {})
                               W2 == clearStringDots(W1, s)
                           IN  [W2 EXCEPT !.dom[t].unplayed = @ \cup {s}]
                      ELSE Schedule(W, {UnplayedEl(t, s)})
                 ELSE IF ~dotActive /\ ~unplayedActive
                      THEN updateDotContent(
                               [clearStringDots(W, s) EXCEPT !.dom[t].dots = @ \cup {p}], t, p)
                      ELSE IF dotActive /\ ~unplayedActive
                      THEN [Schedule(W, {DotEl(t, p)}) EXCEPT !.dom[t].unplayed = @ \cup {s}]
                      ELSE IF ~dotActive /\ unplayedActive
                      THEN Schedule(W, {UnplayedEl(t, s)})
                      ELSE W
            ELSE IF ~dotActive
                 THEN updateDotContent(
                          [clearStringDots(W, s) EXCEPT !.dom[t].dots = @ \cup {p}], t, p)
                 ELSE Schedule(W, {DotEl(t, p)})
    IN  [clicked EXCEPT !.notified = @ \cup {t}]

\* a removal timer runs: classList.remove('active', 'removing')
fireTimer(W) ==
    LET b == Head(W.timers)
        gone(t) == {<<e.fret, e.string>> : e \in {x \in b : x.t = t /\ x.kind = "dot"}}
        unmuted(t) == {e.string : e \in {x \in b : x.t = t /\ x.kind = "unplayed"}}
    IN  [W EXCEPT !.timers = Tail(@),
                  !.dom = [t \in Targets |->
                              [W.dom[t] EXCEPT !.dots = @ \ gone(t),
                                               !.unplayed = @ \ unmuted(t)]]]

\* updateAllDotText(fretboardId): the text of every active dot of the
\* target is written again.  In note mode the data-note attribute is taken
\* when it is set and computed from the position only when it is missing.
updateAllDotText(W, t) ==
    LET D == W.dom[t]
        noteOf(p) == IF NoteAttr(D, p) # NULL THEN NoteAttr(D, p)
                     ELSE getNoteAtFret(W.TUNING, p[2], p[1])
        computed == {p \in D.dots : NoteAttr(D, p) = NULL /\ noteOf(p) # NULL}
    IN  IF W.DOT_TEXT_MODE = "note"
        THEN [W EXCEPT !.dom[t].note = Override(@, [p \in computed |-> noteOf(p)]),
                       !.dom[t].text = Override(@,
                           [p \in {q \in D.dots : noteOf(q) # NULL} |-> NoteText(noteOf(p))])]
        ELSE [W EXCEPT !.dom[t].text = Override(@,
                           [p \in D.dots |->
                               IF FingerAttr(D, p).k = "absent" THEN EmptyText
                               ELSE FingerAttr(D, p)])]

\* ---------------------------------------------------- settings store
\* the customCSS key has not been written
UNDEF == "<undefined>"

defaultSettingsGroupA ==
    [dotTextMode |-> "note", showFretIndicators |-> "first-fret-cond",
     tuning |-> NullTuning, numStrings |-> 6, stringType |-> "1"]

DefaultFretMarkers ==
    [f \in {3, 5, 7, 9, 12, 15, 17, 19, 21, 24} |-> IF f \in {12, 24} THEN "double" ELSE "single"]

defaultSettingsGroupB ==
    [fretMarkers |-> DefaultFretMarkers, fretboardBindingDisplay |-> TRUE]

defaultSettingsGroupC ==
    [name |-> NULL, root |-> NULL, startFret |-> 1, numFrets |-> 4, fingering |-> <<>>]

InitialTuning ==
    [i \in 1..10 |-> <<"E", "A", "D", "G", "B", "E", "B", "F#", "C#", "G#">>[i]]

\* save, rebuild the rows of the target, restore: the block that follows a
\* change of numStrings or of stringType in updateSettingsGroupA
regenerateKeepingDots(W0, t) ==
    Bind(W0, LAMBDA W :
        IF ~W.isInitialized THEN W
        ELSE Bind(saveDotState(W.dom[t]), LAMBDA saved :
             Bind(applyFretHeights(
                      generateFretRows(initializeDynamicStrings(W, t), TRUE, t), t), LAMBDA W1 :
                 [W1 EXCEPT !.dom[t] = restoreDotState(W1.dom[t], saved)])))

\* updateSettingsGroupA(settings, fretboardId).  The cssVariables given to
\* the model never carry '--num-strings'.
updateSettingsGroupA(W0, settings0, t) ==
    Bind(settings0, LAMBDA settings :
    Bind(W0, LAMBDA W :
    Bind(IF Has(settings, "dotTextMode")
         THEN updateAllDotText([W EXCEPT !.DOT_TEXT_MODE = settings.dotTextMode,
                                         !.A.dotTextMode = settings.dotTextMode], t)
         ELSE W, LAMBDA W1 :
    Bind(IF Has(settings, "showFretIndicators")
         THEN [W1 EXCEPT !.A.showFretIndicators = settings.showFretIndicators]
         ELSE W1, LAMBDA W2 :
    Bind(IF Has(settings, "tuning")
         THEN Bind([W2 EXCEPT !.A.tuning = settings.tuning,
                              !.TUNING = IF settings.tuning = NullTuning THEN @
                                         ELSE Override(@, settings.tuning)], LAMBDA Wt :
                  IF settings.tuning # NullTuning /\ Wt.isInitialized
                  THEN updateAllDotText(Wt, t)
                  ELSE Wt)
         ELSE W2, LAMBDA W3 :
    Bind(IF Has(settings, "numStrings")
         THEN regenerateKeepingDots(
                  [W3 EXCEPT !.A.numStrings = settings.numStrings,
                             !.css.numStrings = settings.numStrings], t)
         ELSE W3, LAMBDA W4 :
    Bind(IF Has(settings, "stringType")
         THEN regenerateKeepingDots(
                  [W4 EXCEPT !.A.stringType = settings.stringType,
                             !.STRING_TYPE = settings.stringType], t)
         ELSE W4, LAMBDA W5 :
        IF Has(settings, "cssVariables")
        THEN Bind([W5 EXCEPT !.A.cssVariables = Override(@, settings.cssVariables),
                             !.css.vars = Override(@,
                                 [key \in DOMAIN settings.cssVariables |->
                                     IF settings.cssVariables[key]
                                            \in {"no-image", "no-dot-image"}
                                     THEN "" ELSE settings.cssVariables[key]])], LAMBDA W6 :
                 IF (DOMAIN settings.cssVariables) \cap dimensionVars # {}
                 THEN applyFretHeightsOfFirst(W6)
                 ELSE W6)
        ELSE W5)))))))

\* the value stored as it was given
ProcessedBAsGiven(key, value) == value

\* the value updateSettingsGroupB stores and sets for one custom property
ProcessedB(key, value) ==
    IF key = "--marker-dot-background-image"
    THEN IF value \in {"no-image", "no-dot-image", "", "none"} THEN "" ELSE value
    ELSE IF value \in {"no-image", "no-dot-image"} THEN "" ELSE value

\* the style text added to the one the store holds
StoredCustomCSSAppended(previous, given) ==
    IF given = "" THEN NULL
    ELSE IF previous \in {NULL, UNDEF} THEN given
    ELSE "<other text>"

\* settings.customCSS || null
StoredCustomCSS(previous, given) == IF given = "" THEN NULL ELSE given

\* updateSettingsGroupB(settings, fretboardId)
updateSettingsGroupB(W0, settings0, t) ==
    Bind(settings0, LAMBDA settings :
    Bind(W0, LAMBDA W :
    Bind(IF Has(settings, "fretMarkers")
         THEN [W EXCEPT !.B.fretMarkers = settings.fretMarkers]
         ELSE W, LAMBDA W1 :
    Bind(IF Has(settings, "fretboardBindingDisplay")
         THEN [W1 EXCEPT !.B.fretboardBindingDisplay = settings.fretboardBindingDisplay]
         ELSE W1, LAMBDA W2 :
    Bind(IF Has(settings, "cssVariables")
         THEN [key \in DOMAIN settings.cssVariables |->
                  ProcessedB(key, settings.cssVariables[key])]
         ELSE EmptyFn, LAMBDA stored :
    Bind([W2 EXCEPT !.B.cssVariables = Override(@, stored),
                    !.css.vars = Override(@,
                        [key \in DOMAIN stored |->
                            IF key = "--marker-dot-background-image" /\ stored[key] = ""
                            THEN "none" ELSE stored[key]])], LAMBDA W3 :
        IF Has(settings, "customCSS")
        THEN [W3 EXCEPT !.B.customCSS = StoredCustomCSS(@, settings.customCSS),
                        !.dom[t].customCSS = IF settings.customCSS = NULL THEN ""
                                             ELSE settings.customCSS]
        ELSE W3))))))

\* updateSettingsGroupC(settings, skipRegeneration, fretboardId): the keys
\* are merged into the store first; the fret window is applied to the
\* wrapper that querySelector finds; the fingering is compared with the
\* store the merge has already written.
updateSettingsGroupC(W0, settings0, skipRegeneration, t) ==
    Bind(settings0, LAMBDA settings :
    Bind(W0, LAMBDA W :
    Bind([name |-> IF Has(settings, "name") THEN settings.name ELSE W.C.name,
          root |-> IF Has(settings, "root") THEN settings.root ELSE W.C.root,
          startFret |-> IF Has(settings, "startFret") THEN settings.startFret
                        ELSE W.C.startFret,
          numFrets |-> IF Has(settings, "numFrets") THEN settings.numFrets ELSE W.C.numFrets,
          fingering |-> IF Has(settings, "fingering") THEN settings.fingering
                        ELSE W.C.fingering], LAMBDA merged :
    Bind([W EXCEPT !.C = merged,
                   !.ROOT = IF Has(settings, "root") THEN settings.root ELSE @], LAMBDA W1 :
    Bind(IF Has(settings, "startFret") \/ Has(settings, "numFrets")
         THEN setChordConfiguration(W1, W1.C.startFret, W1.C.numFrets, FirstWrapper(W1))
         ELSE W1, LAMBDA W2 :
        LET checkFingering == W2.isInitialized /\ Has(settings, "fingering")
            currentFingering == W2.C.fingering
            fingeringChanged == currentFingering # settings.fingering
            chordConfig == [fingering |-> settings.fingering, root |-> W2.C.root,
                            name |-> W2.C.name, numStrings |-> W2.A.numStrings,
                            stringType |-> W2.A.stringType, startFret |-> W2.C.startFret,
                            numFrets |-> W2.C.numFrets]
        IN  IF ~checkFingering THEN W2
            ELSE IF Len(settings.fingering) > 0
            THEN IF fingeringChanged THEN displayChord(W2, chordConfig, t) ELSE W2
            ELSE clearChord(W2, t))))))

\* ------------------------------------------- themes and instruments
\* a catalog is a sequence of named presets, in the order of Object.keys
Lookup(catalog, name) == {i \in 1..Len(catalog) : catalog[i].name = name}

\* the settings object applyTheme and init build from a theme
ThemeB(theme) ==
    LET keys == (DOMAIN theme) \cap {"fretMarkers", "fretboardBindingDisplay", "customCSS"}
    IN  [key \in keys \cup {"cssVariables"} |->
            IF key = "cssVariables"
            THEN (IF Has(theme, "cssVariables") THEN theme.cssVariables ELSE EmptyFn)
            ELSE theme[key]]

\* the settings object applyInstrument and init build from an instrument
InstrumentA(instrument) ==
    [key \in (DOMAIN instrument) \cap {"tuning", "numStrings", "stringType"} |-> instrument[key]]

\* the property names a catalog object inherits from Object.prototype:
\* catalog[name] is a function or an object for them, so it is truthy
InheritedNames ==
    {"constructor", "toString", "toLocaleString", "valueOf", "hasOwnProperty",
     "isPrototypeOf", "propertyIsEnumerable", "__proto__", "__defineGetter__",
     "__defineSetter__", "__lookupGetter__", "__lookupSetter__"}

\* catalog[name]: the preset of that name, else the inherited property,
\* which has none of the fields of a preset, else undefined (no value)
Property(catalog, name) ==
    LET found == Lookup(catalog, name)
    IN  IF found # {} THEN <<catalog[CHOOSE i \in found : TRUE]>>
        ELSE IF name \in InheritedNames THEN <<EmptyFn>>
        ELSE <<>>

\* applyTheme(themeName, fretboardId); a target without themes has null
applyTheme(W0, themeName, t) ==
    Bind(W0, LAMBDA W :
        IF ~Has(W.inst, t) THEN W
        ELSE IF W.inst[t].themes = <<>> THEN W
        ELSE LET theme == Property(W.inst[t].themes, themeName)
             IN  IF theme = <<>> THEN W
                 ELSE [updateSettingsGroupB(W, ThemeB(theme[1]), t)
                          EXCEPT !.inst[t].activeTheme = themeName])

\* applyInstrument(instrumentName, fretboardId)
applyInstrument(W0, instrumentName, t) ==
    Bind(W0, LAMBDA W :
        IF ~Has(W.inst, t) THEN W
        ELSE IF W.inst[t].instruments = <<>> THEN W
        ELSE LET instrument == Property(W.inst[t].instruments, instrumentName)
             IN  IF instrument = <<>> THEN W
                 ELSE [updateSettingsGroupA(W, InstrumentA(instrument[1]), t)
                          EXCEPT !.inst[t].activeInstrument = instrumentName])

\* ------------------------------------------------------------- init
\* the wrapper generateHTMLStructure builds: no column, no row, no dot
FreshDom ==
    [cols0 |-> 0, colsN |-> 0, hasRows |-> FALSE, dots |-> {}, unplayed |-> {},
     finger |-> EmptyFn, note |-> EmptyFn, text |-> EmptyFn, window |-> {},
     customCSS |-> "", rowHeight |-> EmptyFn]

\* the preset of the last key of a catalog
LastPreset(catalog) == catalog[Len(catalog)]

\* the preset of Object.keys(catalog)[0]
FirstPreset(catalog) == catalog[1]

\* init(config) for the target t = config.fretboardId
init(W00, config, t) ==
    LET themes == IF Has(config, "themes") THEN config.themes ELSE <<>>
        instruments == IF Has(config, "instruments") THEN config.instruments ELSE <<>>
        instanceData == [themes |-> themes,
                         activeTheme |-> IF themes # <<>> THEN FirstPreset(themes).name
                                         ELSE NULL,
                         instruments |-> instruments,
                         activeInstrument |-> IF instruments # <<>>
                                              THEN FirstPreset(instruments).name
                                              ELSE NULL,
                         isInitialized |-> FALSE]
        gA == config.settingsGroupA
        mergedA == [key \in {"dotTextMode", "showFretIndicators", "tuning", "numStrings",
                             "stringType"} \cup ((DOMAIN gA) \cap {"cssVariables"}) |->
                       IF Has(gA, key) THEN gA[key] ELSE defaultSettingsGroupA[key]]
        gB == config.settingsGroupB
        mergedB == [key \in {"fretMarkers", "fretboardBindingDisplay"}
                            \cup ((DOMAIN gB) \cap {"cssVariables", "customCSS"}) |->
                       IF Has(gB, key) THEN gB[key] ELSE defaultSettingsGroupB[key]]
    IN  Bind(W00, LAMBDA W :
        Bind(Detach([W EXCEPT !.inst = Override(@, [x \in {t} |-> instanceData]),
                              !.dom = Override(@, [x \in {t} |-> FreshDom])],
                    t, 0..NumFretRows), LAMBDA W0 :
        Bind(IF instruments # <<>>
             THEN updateSettingsGroupA(W0, InstrumentA(FirstPreset(instruments)), t)
             ELSE W0, LAMBDA Wi :
        Bind(IF Has(config, "settingsGroupA") THEN updateSettingsGroupA(Wi, mergedA, t)
             ELSE IF instruments = <<>>
             THEN updateSettingsGroupA(Wi, defaultSettingsGroupA, t)
             ELSE Wi, LAMBDA Wa :
        Bind(IF themes # <<>> THEN updateSettingsGroupB(Wa, ThemeB(FirstPreset(themes)), t)
             ELSE Wa, LAMBDA Wt :
        Bind(IF Has(config, "settingsGroupB") THEN updateSettingsGroupB(Wt, mergedB, t)
             ELSE IF themes = <<>> THEN updateSettingsGroupB(Wt, defaultSettingsGroupB, t)
             ELSE Wt, LAMBDA Wb :
        Bind(IF Has(config, "settingsGroupC")
             THEN updateSettingsGroupC(Wb, config.settingsGroupC, TRUE, t)
             ELSE updateSettingsGroupC(Wb, defaultSettingsGroupC, TRUE, t), LAMBDA Wc :
        Bind(applyFretHeights(
                 generateFretRows(initializeDynamicStrings(Wc, t), FALSE, t), t), LAMBDA Wr :
        Bind(IF Len(Wr.C.fingering) > 0 THEN displayChord(Wr, Wr.C, t)
             ELSE IF ~Has(config, "settingsGroupC") THEN clearChord(Wr, t)
             ELSE Wr, LAMBDA Wd :
            [Wd EXCEPT !.inst[t].isInitialized = TRUE, !.isInitialized = TRUE])))))))))

\* applyImportedConfig(config, fretboardId): the init config it builds has
\* the three groups and neither themes nor instruments
applyImportedConfig(W0, config, t) ==
    Bind(W0, LAMBDA W :
    IF ~Has(W.inst, t) THEN W
    ELSE init(W, [key \in (DOMAIN config) \cap
                      {"settingsGroupA", "settingsGroupB", "settingsGroupC"} |-> config[key]], t))

\* -------------------------------------------------- the page as loaded
\* fretboard.js as loaded, before any init
Loaded ==
    [A |-> [dotTextMode |-> "note", showFretIndicators |-> "first-fret-cond",
            tuning |-> NullTuning, numStrings |-> 6, stringType |-> "1",
            cssVariables |-> EmptyFn],
     B |-> [fretMarkers |-> DefaultFretMarkers, fretboardBindingDisplay |-> TRUE,
            cssVariables |-> EmptyFn, customCSS |-> UNDEF],
     C |-> defaultSettingsGroupC,
     TUNING |-> InitialTuning, STRING_TYPE |-> "1", DOT_TEXT_MODE |-> "note",
     ROOT |-> NULL, START_FRET |-> 1, isInitialized |-> FALSE,
     css |-> [numStrings |-> 0, startFret |-> 0, numFrets |-> 0, vars |-> EmptyFn],
     inst |-> EmptyFn, dom |-> EmptyFn, timers |-> <<>>,
     layout |-> [t \in Targets |-> LaidOutHeight], frames |-> <<>>, ran |-> NoRun,
     notified |-> {}]

GuitarTuning == [i \in 1..6 |-> <<"E", "A", "D", "G", "B", "E">>[i]]

BassTuning == [i \in 1..4 |-> <<"E", "A", "D", "G">>[i]]

\* the catalogs the page gives to init for target X; target Y gets none
InstrumentCatalog ==
    <<[name |-> "guitar", tuning |-> GuitarTuning, numStrings |-> 6, stringType |-> "1"],
      [name |-> "bass", tuning |-> BassTuning, numStrings |-> 4, stringType |-> "1"]>>

ThemeCatalog ==
    <<[name |-> "classic", fretMarkers |-> DefaultFretMarkers,
       fretboardBindingDisplay |-> TRUE,
       cssVariables |-> ("--fretboard-color" :> "brown")],
      [name |-> "dark", fretboardBindingDisplay |-> FALSE,
       cssVariables |-> ("--fretboard-color" :> "black"),
       customCSS |-> ".fingering_dot{opacity:1}"]>>

\* the page initialises X, then Y
AfterConstruction ==
    init(init(Loaded, [themes |-> ThemeCatalog, instruments |-> InstrumentCatalog], "X"),
         [containerId |-> "Y"], "Y")

NoCall == [op |-> "none", target |-> "", arg |-> <<>>]

\* ------------------------------------------------------------ texts
\* A text (exported code, pasted code, a string value) is a sequence of
\* lexical units: one of the characters the exporter and the parser treat
\* specially, or a maximal run of other characters.
SP == " "

NL == "\n"

Q1 == "'"

Q2 == "\""

BS == "\\"

\* the backtick
BT == "<backtick>"

\* the string values of the store that contain special characters, with
\* their units (for a style text the braces and commas are units too); any
\* other non-empty string is one unit
SpecialStrings ==
    <<[s |-> "it's", chars |-> <<"it", Q1, "s">>],
      [s |-> "A\"m", chars |-> <<"A", Q2, "m">>],
      [s |-> "a\\q", chars |-> <<"a", BS, "q">>],
      [s |-> "x\ny", chars |-> <<"x", NL, "y">>],
      [s |-> "a//b", chars |-> <<"a", "/", "/", "b">>],
      [s |-> "a/*b*/c", chars |-> <<"a", "/", "*", "b", "*", "/", "c">>],
      [s |-> "ac", chars |-> <<"a", "c">>],
      [s |-> "aq", chars |-> <<"a", "q">>],
      [s |-> "a\\", chars |-> <<"a", BS>>],
      [s |-> "a}b", chars |-> <<"a", "}", "b">>],
      [s |-> "a\"b", chars |-> <<"a", Q2, "b">>],
      [s |-> ".x{}", chars |-> <<".x", "{", "}">>],
      [s |-> ".fingering_dot{opacity:1}",
       chars |-> <<".fingering_dot", "{", "opacity:1", "}">>],
      [s |-> ".a{c}", chars |-> <<".a", "{", "c", "}">>],
      [s |-> ".a{c} .b{c}", chars |-> <<".a", "{", "c", "}", SP, ".b", "{", "c", "}">>],
      [s |-> ".a, .b{c}", chars |-> <<".a", ",", SP, ".b", "{", "c", "}">>],
      [s |-> "@media m{.a{c}}", chars |-> <<"@media m", "{", ".a", "{", "c", "}", "}">>]>>

Chars(s) ==
    IF s = "" THEN <<>>
    ELSE IF \E i \in DOMAIN SpecialStrings : SpecialStrings[i].s = s
    THEN SpecialStrings[CHOOSE i \in DOMAIN SpecialStrings : SpecialStrings[i].s = s].chars
    ELSE <<s>>

\* the string made of the given units
Str(units) ==
    IF units = <<>> THEN ""
    ELSE IF \E i \in DOMAIN SpecialStrings : SpecialStrings[i].chars = units
    THEN SpecialStrings[CHOOSE i \in DOMAIN SpecialStrings : SpecialStrings[i].chars = units].s
    ELSE IF Len(units) = 1 THEN units[1]
    ELSE "<other text>"

\* String(n) for the numbers that occur
Digits ==
    <<"0", "1", "2", "3", "4", "5", "6", "7", "8", "9", "10", "11", "12", "13", "14",
      "15", "16", "17", "18", "19", "20", "21", "22", "23", "24">>

NumWord(n) == IF n = -1 THEN "-1" ELSE Digits[n + 1]

IsNumWord(w) == w = "-1" \/ \E i \in DOMAIN Digits : Digits[i] = w

WordNum(w) == IF w = "-1" THEN -1 ELSE (CHOOSE i \in DOMAIN Digits : Digits[i] = w) - 1

\* the concatenation of seqs[lo..hi]
RECURSIVE ConcatRange(_, _, _)
ConcatRange(seqs, lo, hi) ==
    IF lo > hi THEN <<>>
    ELSE IF lo = hi THEN seqs[lo]
    ELSE ConcatRange(seqs, lo, (lo + hi) \div 2) \o ConcatRange(seqs, (lo + hi) \div 2 + 1, hi)

Concat(seqs) == ConcatRange(seqs, 1, Len(seqs))

\* parts.join(sep)
Join(parts, sep) ==
    Concat([i \in 1..Len(parts) |-> IF i = 1 THEN parts[i] ELSE sep \o parts[i]])

\* text.replace(/u/g, by) for a single character u
ReplaceAll(text, u, by) ==
    Concat([i \in 1..Len(text) |-> IF text[i] = u THEN by ELSE <<text[i]>>])

IsSpace(u) == u \in {SP, NL}

TrimStart(text) ==
    LET kept == {i \in 1..Len(text) : ~IsSpace(text[i])}
    IN  IF kept = {} THEN <<>>
        ELSE SubSeq(text, CHOOSE i \in kept : \A j \in kept : i <= j, Len(text))

TrimEnd(text) ==
    LET kept == {i \in 1..Len(text) : ~IsSpace(text[i])}
    IN  IF kept = {} THEN <<>>
        ELSE SubSeq(text, 1, CHOOSE i \in kept : \A j \in kept : j <= i)

Trim(text) == TrimEnd(TrimStart(text))

\* ------------------------------------------------- generateExportCode
\* the id of the element that carries data-fretboard-id = targetId
ContainerId(targetId) == IF targetId = "X" THEN "fretboard-x" ELSE "fretboard-y"

\* the custom properties the store can hold, in the order of sort()
CssKeyOrder == <<"--fretboard-color", "--string-1-default-color", "--tuning-label-color">>

SortedKeys(cssVariables) == SelectSeq(CssKeyOrder, LAMBDA key : key \in DOMAIN cssVariables)

Quoted(q, text) == <<q>> \o text \o <<q>>

\* the lines of an object literal whose entries are given, one per line
Block(key, entries) ==
    <<SP, key, ":", SP, "{", NL>>
        \o Concat([i \in 1..Len(entries) |->
                      <<SP>> \o entries[i]
                          \o (IF i < Len(entries) THEN <<",">> ELSE <<>>) \o <<NL>>])
        \o <<SP, "}">>

\* the cssVariables block of groups A and B: only ' is escaped in a value
CssVarsCode(cssVariables) ==
    Bind(SortedKeys(cssVariables), LAMBDA keys :
        Block("cssVariables",
              [i \in 1..Len(keys) |->
                  Quoted(Q1, <<keys[i]>>) \o <<":", SP>>
                      \o Quoted(Q1, ReplaceAll(Chars(cssVariables[keys[i]]), Q1, <<BS, Q1>>))]))

CommentLine(words) == <<NL, SP, "/", "/", SP>> \o Join([i \in 1..Len(words) |-> <<words[i]>>], <<SP>>) \o <<NL>>

GroupACode(groupA) ==
    LET tuningKeys == SortedSeq(DOMAIN groupA.tuning)
        tuningCode ==
            IF groupA.tuning # NullTuning /\ DOMAIN groupA.tuning # {}
            THEN Block("tuning",
                       [i \in 1..Len(tuningKeys) |->
                           <<NumWord(tuningKeys[i]), ":", SP>>
                               \o Quoted(Q1, Chars(groupA.tuning[tuningKeys[i]]))])
            ELSE <<SP, "tuning", ":", SP, "null">>
        props ==
            <<<<SP, "dotTextMode", ":", SP>> \o Quoted(Q1, Chars(groupA.dotTextMode)),
              <<SP, "showFretIndicators", ":", SP>> \o Quoted(Q1, Chars(groupA.showFretIndicators)),
              <<SP, "numStrings", ":", SP, NumWord(groupA.numStrings)>>,
              <<SP, "stringType", ":", SP>> \o Quoted(Q1, Chars(groupA.stringType)),
              tuningCode>>
            \o (IF DOMAIN groupA.cssVariables # {} THEN <<CssVarsCode(groupA.cssVariables)>>
                ELSE <<>>)
    IN  CommentLine(<<"Settings", "Group", "A", "-", "Fretboard", "Variables">>)
            \o <<SP, "settingsGroupA", ":", SP, "{", NL>>
            \o Join(props, <<",", NL>>)
            \o <<NL, SP, "}", ",", NL>>

\* customCSS: backslash, backtick, newline and ' are escaped, in this order
EscapedCSS(customCSS) ==
    ReplaceAll(ReplaceAll(ReplaceAll(ReplaceAll(Chars(customCSS), BS, <<BS, BS>>),
                                     BT, <<BS, BT>>),
                          NL, <<BS, "n">>),
               Q1, <<BS, Q1>>)

GroupBCode(groupB) ==
    LET markerKeys == SortedSeq(DOMAIN groupB.fretMarkers)
        markersCode ==
            Block("fretMarkers",
                  [i \in 1..Len(markerKeys) |->
                      <<NumWord(markerKeys[i]), ":", SP>>
                          \o Quoted(Q1, Chars(groupB.fretMarkers[markerKeys[i]]))])
        props ==
            <<markersCode,
              <<SP, "fretboardBindingDisplay", ":", SP,
                IF groupB.fretboardBindingDisplay THEN "true" ELSE "false">>>>
            \o (IF DOMAIN groupB.cssVariables # {} THEN <<CssVarsCode(groupB.cssVariables)>>
                ELSE <<>>)
            \o (IF groupB.customCSS \notin {NULL, UNDEF} /\ Trim(Chars(groupB.customCSS)) # <<>>
                THEN <<<<SP, "customCSS", ":", SP>> \o Quoted(Q1, EscapedCSS(groupB.customCSS))>>
                ELSE <<>>)
    IN  CommentLine(<<"Settings", "Group", "B", "-", "Fretboard", "Skin">>)
            \o <<SP, "settingsGroupB", ":", SP, "{", NL>>
            \o Join(props, <<",", NL>>)
            \o <<NL, SP, "}", ",", NL>>

\* the filter with the muted marker let through
ExportValidFromMuted(f) == f.fret.k = "num" /\ f.fret.v >= -1

\* a fingering entry the exporter keeps: its fret is a number >= 0
ExportValid(f) == f.fret.k = "num" /\ f.fret.v >= 0

\* ${f.finger}: a number, or the text of the value
FingerWord(g) == IF g.k = "num" THEN NumWord(g.v) ELSE IF g.k = "NaN" THEN "NaN" ELSE "0"

GroupCCode(groupC) ==
    LET fingering == groupC.fingering
        valid == {i \in 1..Len(fingering) : ExportValid(fingering[i])}
        order == SortedSeq({fingering[i].string * 100 + fingering[i].fret.v : i \in valid})
        entryOf(kk) == fingering[CHOOSE i \in valid :
                                     fingering[i].string * 100 + fingering[i].fret.v = kk]
        entryCode(f) ==
            <<"{", SP, "string", ":", SP, NumWord(f.string), ",", SP,
              "fret", ":", SP, NumWord(f.fret.v), ",", SP,
              "finger", ":", SP, FingerWord(f.finger), SP, "}">>
        fingeringCode ==
            <<SP, "fingering", ":", SP, "[", NL>>
                \o Concat([i \in 1..Len(order) |->
                              <<SP>> \o entryCode(entryOf(order[i]))
                                  \o (IF i < Len(order) THEN <<",">> ELSE <<>>) \o <<NL>>])
                \o <<SP, "]">>
        strOrNull(v) == IF v = NULL THEN <<"null">> ELSE Quoted(Q2, Chars(v))
        props ==
            <<<<SP, "name", ":", SP>> \o strOrNull(groupC.name),
              <<SP, "root", ":", SP>> \o strOrNull(groupC.root),
              <<SP, "startFret", ":", SP, NumWord(groupC.startFret)>>,
              <<SP, "numFrets", ":", SP, NumWord(groupC.numFrets)>>,
              fingeringCode>>
    IN  IF valid = {} THEN <<>>
        ELSE CommentLine(<<"Settings", "Group", "C", "-", "Chord", "Variables">>)
                 \o <<SP, "settingsGroupC", ":", SP, "{", NL>>
                 \o Join(props, <<",", NL>>)
                 \o <<NL, SP, "}", NL>>

\* generateExportCode(state, targetId, includeGroupA, includeGroupB,
\* includeGroupC) with includeAllVariables left at its default, false
generateExportCode(state, targetId, includeGroupA, includeGroupB, includeGroupC) ==
    <<"Fretboard.init", "(", "{", NL>>
        \o <<SP, "containerId", ":", SP, Q1, ContainerId(targetId), Q1, ",", NL>>
        \o <<SP, "fretboardId", ":", SP, Q1, targetId, Q1, ",", NL>>
        \o <<SP, "cssPath", ":", SP, Q1, "fretboard.css", Q1, ",", NL>>
        \o (IF includeGroupA THEN GroupACode(state.settingsGroupA) ELSE <<>>)
        \o (IF includeGroupB THEN GroupBCode(state.settingsGroupB) ELSE <<>>)
        \o (IF includeGroupC THEN GroupCCode(state.settingsGroupC) ELSE <<>>)
        \o <<"}", ")", ";">>

\* --------------------------------------------------- parseExportCode
\* text.indexOf(pat, from): the first position >= from where pat starts,
\* 0 when there is none
IndexOf(text, pat, from) ==
    LET hits == {i \in from..(Len(text) - Len(pat) + 1) :
                    \A j \in 1..Len(pat) : text[i + j - 1] = pat[j]}
    IN  IF hits = {} THEN 0 ELSE CHOOSE i \in hits : \A h \in hits : i <= h

\* --------------------------------------------------- applyCustomCSS
\* '#' + getInstanceElementId(fretboardId, 'chord_builder_wrapper')
WrapperSelector(t) ==
    CASE t = "X" -> "#X_chord_builder_wrapper"
      [] t = "Y" -> "#Y_chord_builder_wrapper"
      [] OTHER -> "#Z_chord_builder_wrapper"

\* cssString.split(/(?<=})\s*(?=\S)/): the text is cut after every '}' that
\* something other than white space follows, and the white space between
\* is dropped
SplitRules(text) ==
    LET inkAfter(i) == {j \in (i + 1)..Len(text) :
                           /\ ~IsSpace(text[j])
                           /\ \A k \in (i + 1)..(j - 1) : IsSpace(text[k])}
        cuts == SortedSeq({i \in 1..Len(text) : text[i] = "}" /\ inkAfter(i) # {}})
        from(k) == IF k = 1 THEN 1 ELSE CHOOSE j \in inkAfter(cuts[k - 1]) : TRUE
        upTo(k) == IF k = Len(cuts) + 1 THEN Len(text) ELSE cuts[k]
    IN  [k \in 1..(Len(cuts) + 1) |-> SubSeq(text, from(k), upTo(k))]

\* one iteration of rules.forEach: the piece with the wrapper selector and
\* a space before it, or as it is when it has no brace
ScopedRule(rule, t) ==
    LET trimmed == Trim(rule)
        braceIndex == IndexOf(trimmed, <<"{">>, 1)
        selector == Trim(SubSeq(trimmed, 1, braceIndex - 1))
        properties == SubSeq(trimmed, braceIndex, Len(trimmed))
    IN  IF trimmed = <<>> THEN <<>>
        ELSE IF braceIndex = 0 THEN trimmed \o <<NL>>
        ELSE <<WrapperSelector(t), SP>> \o selector \o properties \o <<NL>>

\* styleTag.textContent after applyCustomCSS(cssString, fretboardId) with
\* a cssString that is not blank
ScopedCSS(cssString, t) ==
    LET rules == SplitRules(cssString)
    IN  Trim(Concat([k \in 1..Len(rules) |-> ScopedRule(rules[k], t)]))

\* text.split('\n')
SplitLines(text) ==
    LET breaks == {i \in 1..Len(text) : text[i] = NL}
        \* the position of the k-th line break; 0 before the first line
        breakAt(k) == IF k = 0 THEN 0
                      ELSE IF k > Cardinality(breaks) THEN Len(text) + 1
                      ELSE CHOOSE p \in breaks : Cardinality({q \in breaks : q < p}) = k - 1
    IN  [k \in 1..(Cardinality(breaks) + 1) |->
            SubSeq(text, breakAt(k - 1) + 1, breakAt(k) - 1)]

\* the loop that decides whether the first '//' of a line is inside a
\* string: the quote state after the characters before limit
RECURSIVE InStringBefore(_, _, _, _, _)
InStringBefore(line, i, limit, inString, stringChar) ==
    IF i >= limit THEN inString
    ELSE LET char == line[i]
             prevChar == IF i > 1 THEN line[i - 1] ELSE ""
         IN  IF ~inString /\ char \in {Q1, Q2}
             THEN InStringBefore(line, i + 1, limit, TRUE, char)
             ELSE IF inString /\ char = stringChar /\ prevChar # BS
             THEN InStringBefore(line, i + 1, limit, FALSE, "")
             ELSE InStringBefore(line, i + 1, limit, inString, stringChar)

\* one line with its trailing // comment removed
CleanLine(line) ==
    Bind(IndexOf(line, <<"/", "/">>, 1), LAMBDA commentIdx :
        IF commentIdx # 0 /\ ~InStringBefore(line, 1, commentIdx, FALSE, "")
        THEN TrimEnd(SubSeq(line, 1, commentIdx - 1))
        ELSE line)

\* code.replace(/\/\*[\s\S]*?\*\//g, ''): strings are not looked at
RECURSIVE RemoveBlockComments(_)
RemoveBlockComments(text) ==
    Bind(IndexOf(text, <<"/", "*">>, 1), LAMBDA i :
        IF i = 0 THEN text
        ELSE Bind(IndexOf(text, <<"*", "/">>, i + 2), LAMBDA j :
            IF j = 0 THEN text
            ELSE SubSeq(text, 1, i - 1)
                     \o RemoveBlockComments(SubSeq(text, j + 2, Len(text)))))

\* one iteration of the loop that looks for the brace closing the one at
\* startIdx; endIdx 0 stands for -1, and nothing runs after the break
ScanStep(code, st, i) ==
    LET char == code[i]
        prevChar == IF i > 1 THEN code[i - 1] ELSE ""
        prevPrevChar == IF i > 2 THEN code[i - 2] ELSE ""
    IN  IF st.endIdx # 0 THEN st
        ELSE IF ~st.inString /\ char \in {Q1, Q2}
        THEN [st EXCEPT !.inString = TRUE, !.stringChar = char]
        ELSE IF st.inString
        THEN IF char = st.stringChar /\ prevChar = BS /\ prevPrevChar # BS THEN st
             ELSE IF char = st.stringChar /\ prevChar # BS
             THEN [st EXCEPT !.inString = FALSE, !.stringChar = ""]
             ELSE st
        ELSE IF char = "{" THEN [st EXCEPT !.braceCount = @ + 1]
        ELSE IF char = "}"
        THEN [st EXCEPT !.braceCount = @ - 1,
                        !.endIdx = IF st.braceCount - 1 = 0 THEN i + 1 ELSE 0]
        ELSE st

\* the iterations lo..hi of that loop, in order
RECURSIVE ScanRange(_, _, _, _)
ScanRange(code, st, lo, hi) ==
    IF lo > hi THEN st
    ELSE IF lo = hi THEN ScanStep(code, st, lo)
    ELSE Bind(ScanRange(code, st, lo, (lo + hi) \div 2), LAMBDA half :
             ScanRange(code, half, (lo + hi) \div 2 + 1, hi))

ScanBraces(code, startIdx) ==
    ScanRange(code, [braceCount |-> 0, inString |-> FALSE, stringChar |-> "", endIdx |-> 0],
              startIdx, Len(code))

\* ---------------------------------- new Function('return ' + objStr)()
\* Tokens of the JavaScript source: a punctuator, a string literal with its
\* escapes resolved, or a word (identifier, number, keyword).
Punctuators == {"{", "}", "[", "]", ":", ",", "(", ")", ";", "/", "*", BS, BT}

PunctTok(u) == [t |-> "punct", w |-> u, units |-> <<>>]

WordTok(u) == [t |-> "word", w |-> u, units |-> <<>>]

StrTok(units) == [t |-> "str", w |-> "", units |-> units]

\* the character an escape sequence stands for
Unescape(u) == IF u = "n" THEN <<NL>> ELSE IF u = NL THEN <<>> ELSE <<u>>

\* The scanner reads one character at a time; mode says what it is inside
\* of: code, a string opened by q, an escape, a comment.
LexStart ==
    [ok |-> TRUE, mode |-> "code", q |-> "", units |-> <<>>, toks |-> <<>>, skip |-> 0]

LexStep(text, st, i) ==
    LET u == text[i]
        following == IF i < Len(text) THEN text[i + 1] ELSE ""
    IN  IF ~st.ok \/ i <= st.skip THEN st
        ELSE IF st.mode = "string"
        THEN IF u = st.q
             THEN [st EXCEPT !.mode = "code", !.toks = Append(@, StrTok(st.units)),
                             !.units = <<>>]
             ELSE IF u = NL THEN [st EXCEPT !.ok = FALSE]
             ELSE IF u = BS
             THEN IF i = Len(text) THEN [st EXCEPT !.ok = FALSE]
                  ELSE [st EXCEPT !.units = @ \o Unescape(following), !.skip = i + 1]
             ELSE [st EXCEPT !.units = Append(@, u)]
        ELSE IF st.mode = "line comment"
        THEN IF u = NL THEN [st EXCEPT !.mode = "code"] ELSE st
        ELSE IF st.mode = "block comment"
        THEN IF u = "*" /\ following = "/"
             THEN [st EXCEPT !.mode = "code", !.skip = i + 1]
             ELSE st
        ELSE IF IsSpace(u) THEN st
        ELSE IF u \in {Q1, Q2} THEN [st EXCEPT !.mode = "string", !.q = u]
        ELSE IF u = "/" /\ following = "/" THEN [st EXCEPT !.mode = "line comment"]
        ELSE IF u = "/" /\ following = "*"
        THEN [st EXCEPT !.mode = "block comment", !.skip = i + 1]
        ELSE IF u \in Punctuators THEN [st EXCEPT !.toks = Append(@, PunctTok(u))]
        ELSE [st EXCEPT !.toks = Append(@, WordTok(u))]

RECURSIVE LexRange(_, _, _, _)
LexRange(text, st, lo, hi) ==
    IF lo > hi THEN st
    ELSE IF lo = hi THEN LexStep(text, st, lo)
    ELSE Bind(LexRange(text, st, lo, (lo + hi) \div 2), LAMBDA half :
             LexRange(text, half, (lo + hi) \div 2 + 1, hi))

\* the tokens of a source text; a string or a block comment left open at
\* the end is a syntax error
Lex(text) ==
    Bind(LexRange(text, LexStart, 1, Len(text)), LAMBDA st :
        [st EXCEPT !.ok = st.ok /\ st.mode \in {"code", "line comment"}])

\* Syntax trees: k is the kind; str carries units, num and bool a value,
\* ident and call a name, obj its members in source order, arr its items.
Tree(k, w, n, units, kids) == [k |-> k, w |-> w, n |-> n, units |-> units, kids |-> kids]

ParseError == [ok |-> FALSE, next |-> 0, tree |-> Tree("error", "", 0, <<>>, <<>>)]

Parsed(tree, next) == [ok |-> TRUE, next |-> next, tree |-> tree]

IsPunct(toks, p, u) == p <= Len(toks) /\ toks[p].t = "punct" /\ toks[p].w = u

RECURSIVE ParseValue(_, _)
RECURSIVE ParseMembers(_, _, _)
RECURSIVE ParseItems(_, _, _)
\* the members of an object literal after '{' or after a comma
ParseMembers(toks, p, acc) ==
    IF IsPunct(toks, p, "}") THEN Parsed(Tree("obj", "", 0, <<>>, acc), p + 1)
    ELSE IF p > Len(toks) \/ toks[p].t = "punct" \/ ~IsPunct(toks, p + 1, ":") THEN ParseError
    ELSE Bind(ParseValue(toks, p + 2), LAMBDA v :
        IF ~v.ok THEN ParseError
        ELSE Bind(Append(acc, [key |-> IF toks[p].t = "str" THEN Str(toks[p].units)
                                       ELSE toks[p].w,
                               val |-> v.tree]), LAMBDA acc2 :
            IF IsPunct(toks, v.next, ",") THEN ParseMembers(toks, v.next + 1, acc2)
            ELSE IF IsPunct(toks, v.next, "}")
            THEN Parsed(Tree("obj", "", 0, <<>>, acc2), v.next + 1)
            ELSE ParseError))

\* the items of an array literal after '[' or after a comma
ParseItems(toks, p, acc) ==
    IF IsPunct(toks, p, "]") THEN Parsed(Tree("arr", "", 0, <<>>, acc), p + 1)
    ELSE Bind(ParseValue(toks, p), LAMBDA v :
        IF ~v.ok THEN ParseError
        ELSE Bind(Append(acc, v.tree), LAMBDA acc2 :
            IF IsPunct(toks, v.next, ",") THEN ParseItems(toks, v.next + 1, acc2)
            ELSE IF IsPunct(toks, v.next, "]")
            THEN Parsed(Tree("arr", "", 0, <<>>, acc2), v.next + 1)
            ELSE ParseError))

ParseValue(toks, p) ==
    IF p > Len(toks) THEN ParseError
    ELSE IF toks[p].t = "str" THEN Parsed(Tree("str", "", 0, toks[p].units, <<>>), p + 1)
    ELSE IF toks[p].t = "word"
    THEN IF IsPunct(toks, p + 1, "(")
         THEN IF IsPunct(toks, p + 2, ")")
              THEN Parsed(Tree("call", toks[p].w, 0, <<>>, <<>>), p + 3)
              ELSE ParseError
         ELSE IF IsNumWord(toks[p].w)
         THEN Parsed(Tree("num", "", WordNum(toks[p].w), <<>>, <<>>), p + 1)
         ELSE IF toks[p].w \in {"true", "false"}
         THEN Parsed(Tree("bool", toks[p].w, 0, <<>>, <<>>), p + 1)
         ELSE IF toks[p].w = "null" THEN Parsed(Tree("null", "", 0, <<>>, <<>>), p + 1)
         ELSE Parsed(Tree("ident", toks[p].w, 0, <<>>, <<>>), p + 1)
    ELSE IF IsPunct(toks, p, "{") THEN ParseMembers(toks, p + 1, <<>>)
    ELSE IF IsPunct(toks, p, "[") THEN ParseItems(toks, p + 1, <<>>)
    ELSE ParseError

\* Values: k is the type; obj carries fields (key -> value), arr items.
Value(k, w, n, units, fields, items) ==
    [k |-> k, w |-> w, n |-> n, units |-> units, fields |-> fields, items |-> items]

UndefinedValue == Value("undefined", "", 0, <<>>, EmptyFn, <<>>)

NullValue == Value("null", "", 0, <<>>, EmptyFn, <<>>)

StrValue(units) == Value("str", "", 0, units, EmptyFn, <<>>)

NumValue(n) == Value("num", "", n, <<>>, EmptyFn, <<>>)

BoolValue(b) == Value("bool", IF b THEN "true" ELSE "false", 0, <<>>, EmptyFn, <<>>)

ObjValue(fields) == Value("obj", "", 0, <<>>, fields, <<>>)

ArrValue(items) == Value("arr", "", 0, <<>>, EmptyFn, items)

\* the outcome of evaluating an expression: its value, or the error thrown,
\* and the calls the evaluation has made
Evaluated(val, effects) == [ok |-> TRUE, val |-> val, effects |-> effects, error |-> <<>>]

Thrown(error, effects) ==
    [ok |-> FALSE, val |-> UndefinedValue, effects |-> effects, error |-> error]

\* the functions of window.Fretboard that a pasted text calls
CallableNames == {"Fretboard.clearChord"}

RECURSIVE Eval(_, _)
RECURSIVE EvalMembers(_, _, _, _)
RECURSIVE EvalItems(_, _, _, _)
\* the properties of an object literal are evaluated in source order
EvalMembers(kids, i, fields, effects) ==
    IF i > Len(kids) THEN Evaluated(ObjValue(fields), effects)
    ELSE Bind(Eval(kids[i].val, effects), LAMBDA r :
        IF ~r.ok THEN r
        ELSE EvalMembers(kids, i + 1, Override(fields, [x \in {kids[i].key} |-> r.val]),
                         r.effects))

EvalItems(kids, i, items, effects) ==
    IF i > Len(kids) THEN Evaluated(ArrValue(items), effects)
    ELSE Bind(Eval(kids[i], effects), LAMBDA r :
        IF ~r.ok THEN r ELSE EvalItems(kids, i + 1, Append(items, r.val), r.effects))

Eval(tree, effects) ==
    IF tree.k = "str" THEN Evaluated(StrValue(tree.units), effects)
    ELSE IF tree.k = "num" THEN Evaluated(NumValue(tree.n), effects)
    ELSE IF tree.k = "bool" THEN Evaluated(BoolValue(tree.w = "true"), effects)
    ELSE IF tree.k = "null" THEN Evaluated(NullValue, effects)
    ELSE IF tree.k = "ident"
    THEN IF tree.w = "undefined" THEN Evaluated(UndefinedValue, effects)
         ELSE Thrown(<<tree.w, " is not defined">>, effects)
    ELSE IF tree.k = "call"
    THEN IF tree.w \in CallableNames
         THEN Evaluated(UndefinedValue, Append(effects, tree.w))
         ELSE Thrown(<<tree.w, " is not defined">>, effects)
    ELSE IF tree.k = "obj" THEN EvalMembers(tree.kids, 1, EmptyFn, effects)
    ELSE EvalItems(tree.kids, 1, <<>>, effects)

\* new Function('return ' + objStr)(): a text that is not one expression
\* is rejected before anything runs
EvalObjectString(objStr) ==
    Bind(Lex(objStr), LAMBDA lexed :
        IF ~lexed.ok THEN Thrown(<<"<SyntaxError>">>, <<>>)
        ELSE Bind(ParseValue(lexed.toks, 1), LAMBDA parsed :
            IF ~parsed.ok \/ parsed.next # Len(lexed.toks) + 1
            THEN Thrown(<<"<SyntaxError>">>, <<>>)
            ELSE Eval(parsed.tree, <<>>)))

\* !value
Falsy(v) ==
    \/ v.k \in {"undefined", "null"}
    \/ v.k = "str" /\ v.units = <<>>
    \/ v.k = "num" /\ v.n = 0
    \/ v.k = "bool" /\ v.w = "false"

ParseFailure(cause, message, effects) ==
    [ok |-> FALSE, cause |-> cause,
     message |-> <<"Invalid code format: ">> \o message,
     settings |-> EmptyFn, effects |-> effects]

\* parseExportCode(code)
parseExportCode(text) ==
    Bind(SplitLines(Trim(text)), LAMBDA lines :
    Bind(RemoveBlockComments(Join([i \in 1..Len(lines) |-> CleanLine(lines[i])], <<NL>>)),
         LAMBDA code :
    Bind(IndexOf(code, <<"Fretboard.init", "(">>, 1), LAMBDA initIdx :
    Bind(IndexOf(code, <<"{">>, IF initIdx = 0 THEN 1 ELSE initIdx), LAMBDA startIdx :
        IF startIdx = 0
        THEN IF initIdx = 0
             THEN ParseFailure("no object",
                      <<"Could not find object in code. Make sure the code includes Fretboard.init({...}) or {...}">>,
                      <<>>)
             ELSE ParseFailure("no opening brace",
                      <<"Could not find opening brace after Fretboard.init(">>, <<>>)
        ELSE Bind(ScanBraces(code, startIdx), LAMBDA scan :
            IF scan.endIdx = 0
            THEN ParseFailure("unmatched braces",
                     <<"Could not find matching closing brace. The code may be incomplete. Brace count: ",
                       NumWord(scan.braceCount)>>, <<>>)
            ELSE Bind(EvalObjectString(SubSeq(code, startIdx, scan.endIdx - 1)), LAMBDA r :
                IF ~r.ok
                THEN ParseFailure("evaluation",
                         <<"Error parsing object: ">> \o r.error
                             \o <<". Please check the code syntax.">>, r.effects)
                ELSE IF Falsy(r.val) \/ r.val.k \notin {"obj", "arr"}
                THEN ParseFailure("not an object", <<"Parsed result is not an object">>,
                                  r.effects)
                ELSE [ok |-> TRUE, cause |-> "", message |-> <<>>,
                      settings |->
                          [g \in {"settingsGroupA", "settingsGroupB", "settingsGroupC"} |->
                              IF r.val.k = "obj" /\ g \in DOMAIN r.val.fields
                              THEN r.val.fields[g] ELSE NullValue],
                      effects |-> r.effects]))))))

\* ------------------------------------- settings objects <-> values
Field(v, key) == IF v.k = "obj" /\ key \in DOMAIN v.fields THEN v.fields[key] ELSE UndefinedValue

\* a string setting as the store holds it
AsString(v) == IF v.k = "str" THEN Str(v.units) ELSE IF v.k = "null" THEN NULL ELSE "<not a string>"

AsNumber(v, otherwise) == IF v.k = "num" THEN v.n ELSE otherwise

AsStringMap(v) == [key \in DOMAIN v.fields |-> AsString(v.fields[key])]

\* an object whose keys are numbers: tuning, fretMarkers
AsNumberedStrings(v) ==
    [i \in {WordNum(key) : key \in {x \in DOMAIN v.fields : IsNumWord(x)}} |->
        AsString(v.fields[NumWord(i)])]

AsEntry(v) ==
    Entry(AsNumber(Field(v, "string"), 0),
          IF Field(v, "fret").k = "num" THEN Num(Field(v, "fret").n) ELSE Undef,
          IF Field(v, "finger").k = "num" THEN Num(Field(v, "finger").n) ELSE Undef)

\* the init config groups an imported settings object stands for
AsGroupA(v) ==
    [key \in (IF v.k = "obj" THEN DOMAIN v.fields ELSE {})
                 \cap {"dotTextMode", "showFretIndicators", "tuning", "numStrings",
                       "stringType", "cssVariables"} |->
        IF key \in {"dotTextMode", "showFretIndicators", "stringType"}
        THEN AsString(v.fields[key])
        ELSE IF key = "numStrings" THEN AsNumber(v.fields[key], 6)
        ELSE IF key = "tuning"
        THEN (IF v.fields[key].k = "obj" THEN AsNumberedStrings(v.fields[key]) ELSE NullTuning)
        ELSE AsStringMap(v.fields[key])]

AsGroupB(v) ==
    [key \in (IF v.k = "obj" THEN DOMAIN v.fields ELSE {})
                 \cap {"fretMarkers", "fretboardBindingDisplay", "cssVariables", "customCSS"} |->
        IF key = "fretMarkers" THEN AsNumberedStrings(v.fields[key])
        ELSE IF key = "fretboardBindingDisplay" THEN ~Falsy(v.fields[key])
        ELSE IF key = "cssVariables" THEN AsStringMap(v.fields[key])
        ELSE AsString(v.fields[key])]

AsGroupC(v) ==
    [key \in (IF v.k = "obj" THEN DOMAIN v.fields ELSE {})
                 \cap {"name", "root", "startFret", "numFrets", "fingering"} |->
        IF key \in {"name", "root"} THEN AsString(v.fields[key])
        ELSE IF key = "startFret" THEN AsNumber(v.fields[key], 1)
        ELSE IF key = "numFrets" THEN AsNumber(v.fields[key], 4)
        ELSE [i \in 1..Len(v.fields[key].items) |-> AsEntry(v.fields[key].items[i])]]

\* the groups of a parsed settings object that are not null, as init takes
\* them
AsConfig(settings) ==
    [g \in {x \in DOMAIN settings : ~Falsy(settings[x])} |->
        IF g = "settingsGroupA" THEN AsGroupA(settings[g])
        ELSE IF g = "settingsGroupB" THEN AsGroupB(settings[g])
        ELSE AsGroupC(settings[g])]

\* ----------------------------------------------------- control panel
\* the target the page's control panel is bound to
PanelTarget == "X"

\* document.activeElement when no field of the panel has focus
Body == "<body>"

\* ids of the fields of the panel that take focus: a select, two text
\* inputs and the colour picker of the tuning label colour
FocusableFields == {"dotTextMode", "chordName", "string_color_1", "--tuning-label-color_color"}

\* the custom property behind the colour input of string i
StringColorKey(i) ==
    IF i <= 6
    THEN <<"--string-1-default-color", "--string-2-default-color", "--string-3-default-color",
           "--string-4-default-color", "--string-5-default-color",
           "--string-6-default-color">>[i]
    ELSE "--string-n-color"

TuningLabelColorKey == "--tuning-label-color"

\* the custom properties the page's stylesheet declares on :root
Stylesheet ==
    [key \in {StringColorKey(i) : i \in 1..6} \cup {TuningLabelColorKey} |->
        IF key = TuningLabelColorKey THEN "#333" ELSE "silver"]

\* getCurrentCSSVariable(varName): the computed value on the root element
getCurrentCSSVariable(W, varName) ==
    IF varName \in DOMAIN W.css.vars /\ W.css.vars[varName] # ""
    THEN W.css.vars[varName]
    ELSE IF varName \in DOMAIN Stylesheet THEN Stylesheet[varName]
    ELSE ""

\* getCurrentFretboardState(targetId): the getters' copies of the store,
\* the fingering replaced by the one derived from the target's dots
getCurrentFretboardState(W, targetId) ==
    [settingsGroupA |-> W.A,
     settingsGroupB |-> W.B,
     settingsGroupC |-> [W.C EXCEPT !.fingering = getFingeringFromDotState(W.dom[targetId])]]

\* parseColorValue(value), for the colour strings that occur: a value that
\* is neither rgb(a) nor hex parses to black, fully opaque
ColorTable ==
    <<[value |-> "#333", hex |-> "#333333", a |-> "1"],
      [value |-> "#ff0000", hex |-> "#ff0000", a |-> "1"],
      [value |-> "rgba(255, 0, 0, 1)", hex |-> "#ff0000", a |-> "1"],
      [value |-> "rgba(51, 51, 51, 1)", hex |-> "#333333", a |-> "1"],
      [value |-> "rgba(0, 0, 255, 0.5)", hex |-> "#0000ff", a |-> "0.5"]>>

parseColorValue(value) ==
    LET found == {i \in DOMAIN ColorTable : ColorTable[i].value = value}
    IN  IF found = {} THEN [hex |-> "#000000", a |-> "1"]
        ELSE [hex |-> ColorTable[CHOOSE i \in found : TRUE].hex,
              a |-> ColorTable[CHOOSE i \in found : TRUE].a]

\* `rgba(${r}, ${g}, ${b}, ${a})` for the hex the picker reports
RgbaOf(hex, a) ==
    IF hex = "#ff0000" /\ a = "1" THEN "rgba(255, 0, 0, 1)"
    ELSE IF hex = "#333333" /\ a = "1" THEN "rgba(51, 51, 51, 1)"
    ELSE IF hex = "#0000ff" /\ a = "0.5" THEN "rgba(0, 0, 255, 0.5)"
    ELSE "rgba(0, 0, 0, 1)"

\* the text a fingering row shows for a fret or a finger
FretText(f) == IF f.fret.k = "num" /\ f.fret.v # 0 THEN NumWord(f.fret.v) ELSE "0"

FingerText(f) ==
    IF f.finger.k = "none" THEN "none"
    ELSE IF f.finger.k = "num" /\ f.finger.v # 0 THEN NumWord(f.finger.v)
    ELSE "0"

\* fingering.sort((a, b) => (a.string || 0) - (b.string || 0)): stable
SortByString(fingering) ==
    LET order == SortedSeq({fingering[i].string * 100 + i : i \in 1..Len(fingering)})
    IN  [j \in 1..Len(order) |-> fingering[order[j] % 100]]

\* the entry a map filled by fingering.forEach keeps for a string: the last
EntryOf(fingering, s) ==
    LET at == {i \in 1..Len(fingering) : fingering[i].string = s}
    IN  fingering[CHOOSE i \in at : \A j \in at : j <= i]

HasEntry(fingering, s) == \E i \in 1..Len(fingering) : fingering[i].string = s

\* rebuildStringRows(container, targetId, inputRefs, numStrings): fresh
\* rows, filled from the fingering derived from the dots
rebuildStringRows(W, P, targetId, numStrings) ==
    LET fingering == getFingeringFromDotState(W.dom[targetId])
        shown == SelectSeq(fingering, LAMBDA f : f.string >= 1 /\ f.fret.k = "num"
                                                  /\ f.fret.v >= -1)
    IN  [P EXCEPT !.fret = [i \in 1..numStrings |->
                               IF HasEntry(shown, i) THEN FretText(EntryOf(shown, i)) ELSE ""],
                  !.finger = [i \in 1..numStrings |->
                                 IF HasEntry(shown, i) THEN FingerText(EntryOf(shown, i))
                                 ELSE ""]]

\* rebuildStringColorsSection(targetId, inputRefs, numStrings): fresh colour
\* inputs, filled from the store or else from the computed style
rebuildStringColorsSection(W, P, numStrings) ==
    [P EXCEPT !.stringColor =
        [i \in 1..numStrings |->
            IF StringColorKey(i) \in DOMAIN W.B.cssVariables
               /\ W.B.cssVariables[StringColorKey(i)] # ""
            THEN W.B.cssVariables[StringColorKey(i)]
            ELSE getCurrentCSSVariable(W, StringColorKey(i))]]

\* no control panel on the page; lastFingeringState is <<>> for null and
\* <<fingering>> for a cached fingering, syncTimer is 0 for null and the id
\* setInterval returned otherwise
NoPanel ==
    [attached |-> FALSE, isSyncing |-> FALSE, userEditing |-> FALSE, editingKey |-> NULL,
     syncTimer |-> 0,
     lastFingeringState |-> <<>>, dotTextMode |-> "", chordName |-> "", numStrings |-> 0,
     stringColor |-> <<>>, tuningLabelColor |-> [hex |-> "", a |-> ""],
     fret |-> <<>>, finger |-> <<>>]

\* initControlPanelForTarget: the instance record and the fields
\* buildControlPanel fills from the current state
initControlPanelForTarget(W, targetId) ==
    LET state == getCurrentFretboardState(W, targetId)
        groupA == state.settingsGroupA
        groupB == state.settingsGroupB
        groupC == state.settingsGroupC
        labelColor == IF TuningLabelColorKey \in DOMAIN groupB.cssVariables
                         /\ groupB.cssVariables[TuningLabelColorKey] # ""
                      THEN groupB.cssVariables[TuningLabelColorKey]
                      ELSE getCurrentCSSVariable(W, TuningLabelColorKey)
        fields == [NoPanel EXCEPT !.attached = TRUE,
                                  !.dotTextMode = groupA.dotTextMode,
                                  !.chordName = IF groupC.name = NULL THEN "" ELSE groupC.name,
                                  !.numStrings = groupA.numStrings,
                                  !.tuningLabelColor =
                                      parseColorValue(IF labelColor = "" THEN "#333"
                                                      ELSE labelColor)]
    IN  rebuildStringRows(W, rebuildStringColorsSection(W, fields, groupA.numStrings),
                          targetId, groupA.numStrings)

\* the fingering block of syncPanelFromFretboard: the rows are touched only
\* when the derived fingering differs from the cached one
SyncFingering(W, P, targetId) ==
    LET fingering == SortByString(getFingeringFromDotState(W.dom[targetId]))
        rows == DOMAIN P.fret
    IN  IF P.lastFingeringState = <<fingering>> THEN P
        ELSE IF Len(fingering) > 0
                /\ \E i \in 1..Len(fingering) :
                       fingering[i].string >= 1 /\ fingering[i].fret.k # "undefined"
        THEN \* a string with an entry gets its texts; for a string without one
             \* the update pushed for the fret span has no isText, so it sets
             \* the span's value property, and the finger input is compared by
             \* its textContent, which is always empty
             [P EXCEPT !.lastFingeringState = <<fingering>>,
                       !.fret = [i \in rows |->
                                    IF HasEntry(fingering, i)
                                    THEN FretText(EntryOf(fingering, i)) ELSE P.fret[i]],
                       !.finger = [i \in rows |->
                                      IF HasEntry(fingering, i)
                                      THEN FingerText(EntryOf(fingering, i))
                                      ELSE P.finger[i]]]
        ELSE [P EXCEPT !.lastFingeringState = <<fingering>>,
                       !.fret = [i \in rows |-> ""],
                       !.finger = [i \in rows |-> ""]]

\* startPanelSync(targetId): the interval the instance record names is
\* cleared, and a new one is set and named in the record; live is the set
\* of the intervals of the page that were set and not cleared
startPanelSync(P, live) ==
    LET kept == IF P.syncTimer # 0 THEN live \ {P.syncTimer} ELSE live
        id == 1 + MaxOf(live \cup {P.syncTimer})
    IN  [P |-> [P EXCEPT !.syncTimer = id], live |-> kept \cup {id}]

\* stopPanelSync(targetId); nothing in the file calls it
stopPanelSync(P, live) ==
    IF P.attached /\ P.syncTimer # 0
    THEN [P |-> [P EXCEPT !.syncTimer = 0], live |-> live \ {P.syncTimer}]
    ELSE [P |-> P, live |-> live]

\* syncPanelFromFretboard(targetId), with activeElement the element that
\* has focus.  isSyncing is set for the run and cleared in its finally.
syncPanelFromFretboard(W, P0, activeElement, targetId) ==
    Bind(P0, LAMBDA P :
    IF targetId # PanelTarget \/ ~P.attached \/ P.isSyncing THEN P
    ELSE IF activeElement \in FocusableFields THEN P
    ELSE LET groupA == W.A
             groupB == W.B
             groupC == W.C
         IN
         \* Settings Group A
         Bind(IF P.dotTextMode # groupA.dotTextMode
              THEN [P EXCEPT !.dotTextMode = groupA.dotTextMode] ELSE P, LAMBDA P1 :
         \* string colour inputs: neither userEditing nor editingKey is read
         Bind([P1 EXCEPT !.stringColor =
                  [i \in DOMAIN P1.stringColor |->
                      IF StringColorKey(i) \in DOMAIN groupB.cssVariables
                      THEN groupB.cssVariables[StringColorKey(i)]
                      ELSE P1.stringColor[i]]], LAMBDA P2 :
         \* CSS variables of Group B: skipped as a whole while userEditing
         Bind(IF /\ ~P2.userEditing
                 /\ P2.editingKey # TuningLabelColorKey
                 /\ TuningLabelColorKey \in DOMAIN groupB.cssVariables
                 /\ groupB.cssVariables[TuningLabelColorKey] # ""
              THEN [P2 EXCEPT !.tuningLabelColor =
                                  parseColorValue(groupB.cssVariables[TuningLabelColorKey])]
              ELSE P2, LAMBDA P3 :
         \* Settings Group C
         Bind([P3 EXCEPT !.chordName = IF groupC.name = NULL THEN "" ELSE groupC.name],
              LAMBDA P4 :
         \* numStrings: the rows and the colour inputs are rebuilt
         Bind(IF P4.numStrings # groupA.numStrings
              THEN rebuildStringColorsSection(W,
                       rebuildStringRows(W, [P4 EXCEPT !.numStrings = groupA.numStrings],
                                         targetId, groupA.numStrings),
                       groupA.numStrings)
              ELSE P4, LAMBDA P5 :
             [SyncFingering(W, P5, targetId) EXCEPT !.isSyncing = FALSE]))))))

\* updateFretboardSetting(targetId, group, key, value): the store call that
\* a field's handler makes
updateFretboardSetting(W, targetId, group, key, value) ==
    IF group = "A"
    THEN updateSettingsGroupA(W, [k \in {key} |-> value], targetId)
    ELSE IF group = "B"
    THEN updateSettingsGroupB(W,
             [k \in {"cssVariables"} |->
                 Override(W.B.cssVariables, [k2 \in {key} |-> value])], targetId)
    ELSE updateSettingsGroupC(W, [k \in {key} |-> value], FALSE, targetId)

\* pending setTimeout callbacks of the panel, oldest first; seen counts
\* the ticks of the sync interval that ran since the timer was set
\* key and by name the field and the handler that set the timer
GuardTimer(kind, key, by, delay) ==
    [kind |-> kind, key |-> key, by |-> by, delay |-> delay, seen |-> 0]

TickPeriod == 200

\* ticks of the interval that fit before a timer of the given delay is due
TicksWithin(delay) == (delay + TickPeriod - 1) \div TickPeriod

\* the timer at position i is due no later than every timer set before it
MayFire(pending, i) == \A j \in 1..(i - 1) : pending[j].delay > pending[i].delay

Without(pending, i) == SubSeq(pending, 1, i - 1) \o SubSeq(pending, i + 1, Len(pending))

\* the callback of a panel timer
firePanelTimer(W, P, activeElement, timer) ==
    IF timer.kind = "isSyncing" THEN [P EXCEPT !.isSyncing = FALSE]
    ELSE IF timer.kind = "editing" THEN [P EXCEPT !.userEditing = FALSE, !.editingKey = NULL]
    ELSE Bind(syncPanelFromFretboard(W, P, activeElement, PanelTarget), LAMBDA P1 :
             rebuildStringColorsSection(W,
                 rebuildStringRows(W, P1, PanelTarget, W.A.numStrings), W.A.numStrings))

\* the change handler of the dotTextMode select: isSyncing is set, the
\* store call clears it in its finally, and a timer clears it again
dotTextModeChanged(W, P, newValue) ==
    [W |-> updateFretboardSetting(W, PanelTarget, "A", "dotTextMode", newValue),
     P |-> [P EXCEPT !.dotTextMode = newValue, !.isSyncing = FALSE],
     timers |-> <<GuardTimer("isSyncing", "dotTextMode", "change", 100)>>]

\* the change handler of the chord name input
chordNameChanged(W, P, value) ==
    [W |-> updateFretboardSetting(W, PanelTarget, "C", "name", value),
     P |-> [P EXCEPT !.chordName = value, !.isSyncing = FALSE],
     timers |-> <<>>]

\* the change handler of the colour input of string 1
stringColorChanged(W, P, value) ==
    [W |-> updateFretboardSetting(W, PanelTarget, "B", StringColorKey(1), value),
     P |-> [P EXCEPT !.stringColor[1] = value, !.userEditing = TRUE,
                     !.editingKey = StringColorKey(1), !.isSyncing = FALSE],
     timers |-> <<GuardTimer("editing", StringColorKey(1), "change", 300)>>]

\* the blur handler of the colour input of string 1
stringColorBlurred(W, P) ==
    [W |-> updateFretboardSetting(W, PanelTarget, "B", StringColorKey(1), P.stringColor[1]),
     P |-> [P EXCEPT !.isSyncing = FALSE],
     timers |-> <<GuardTimer("editing", StringColorKey(1), "blur", 100)>>]

\* the handler of the tuning label colour: the picker reports a hex, the
\* handler gets the rgba text made of it and of the current opacity
tuningLabelColorPicked(W, P, newHex) ==
    [W |-> updateFretboardSetting(W, PanelTarget, "B", TuningLabelColorKey,
                                  RgbaOf(newHex, P.tuningLabelColor.a)),
     P |-> [P EXCEPT !.tuningLabelColor.hex = newHex, !.userEditing = TRUE,
                     !.editingKey = TuningLabelColorKey, !.isSyncing = FALSE],
     timers |-> <<GuardTimer("editing", TuningLabelColorKey, "change", 300)>>]

\* ------------------------------------------------- export and import
\* clearChord() without an id: every active dot and muted marker of the
\* document gets a removal timer
clearChordAll(W0) ==
    Bind(W0, LAMBDA W :
        LET els == UNION {{DotEl(t, p) : p \in W.dom[t].dots}
                          \cup {UnplayedEl(t, s) : s \in W.dom[t].unplayed} : t \in DOMAIN W.dom}
        IN  [Schedule(W, els) EXCEPT !.ROOT = NULL])

\* the calls the evaluation of a pasted text made, in order
RECURSIVE ApplyEffects(_, _)
ApplyEffects(W, effects) ==
    IF effects = <<>> THEN W
    ELSE ApplyEffects(IF Head(effects) = "Fretboard.clearChord" THEN clearChordAll(W) ELSE W,
                      Tail(effects))

NothingExported ==
    [made |-> FALSE, state |-> <<>>, includeGroupA |-> FALSE, includeGroupB |-> FALSE,
     includeGroupC |-> FALSE]

\* the text the export modal shows
ExportedCode ==
    generateExportCode(exported.state, PanelTarget, exported.includeGroupA,
                       exported.includeGroupB, exported.includeGroupC)

NoImport == [cause |-> "", shown |-> <<>>, applied |-> FALSE]

\* what an import attempt may change: the store, the active selections and
\* the dots, with the removal timers that were pending
Snapshot(W) ==
    [A |-> W.A, B |-> W.B, C |-> W.C,
     selections |-> [t \in DOMAIN W.inst |->
                        <<W.inst[t].activeTheme, W.inst[t].activeInstrument>>],
     dots |-> [t \in DOMAIN W.dom |-> <<W.dom[t].dots, W.dom[t].unplayed>>],
     timers |-> W.timers]

\* the click handler of the import button, for the text of the textarea;
\* a failed evaluation has already made the calls that came before the
\* failure
importClick(W, text) ==
    LET code == Trim(text)
    IN  IF code = <<>>
        THEN [W |-> W, timer |-> FALSE,
              outcome |-> [cause |-> "empty", shown |-> <<"Please paste the exported code.">>,
                           applied |-> FALSE]]
        ELSE Bind(parseExportCode(code), LAMBDA r :
             Bind(ApplyEffects(W, r.effects), LAMBDA W1 :
                 IF ~r.ok
                 THEN [W |-> W1, timer |-> FALSE,
                       outcome |-> [cause |-> r.cause,
                                    shown |-> <<"Error: ">> \o r.message
                                                  \o <<" (Check console for details)">>,
                                    applied |-> FALSE]]
                 ELSE IF \E g \in DOMAIN r.settings : ~Falsy(r.settings[g])
                 THEN [W |-> applyImportedConfig(W1, AsConfig(r.settings), PanelTarget),
                       timer |-> TRUE,
                       outcome |-> [cause |-> "", shown |-> <<>>, applied |-> TRUE]]
                 ELSE [W |-> W1, timer |-> FALSE,
                       outcome |-> [cause |-> "no settings",
                                    shown |-> <<"Could not parse the code or no settings found. Please check the format.">>,
                                    applied |-> FALSE]]))

\* ------------------------------------------------------ initial state
InitWith(P) ==
    /\ settingsGroupA = AfterConstruction.A
    /\ settingsGroupB = AfterConstruction.B
    /\ settingsGroupC = AfterConstruction.C
    /\ TUNING = AfterConstruction.TUNING
    /\ STRING_TYPE = AfterConstruction.STRING_TYPE
    /\ DOT_TEXT_MODE = AfterConstruction.DOT_TEXT_MODE
    /\ CURRENT_CHORD_ROOT = AfterConstruction.ROOT
    /\ START_FRET = AfterConstruction.START_FRET
    /\ isInitialized = AfterConstruction.isInitialized
    /\ rootStyle = AfterConstruction.css
    /\ fretboardInstances = AfterConstruction.inst
    /\ dom = AfterConstruction.dom
    /\ timers = AfterConstruction.timers
    /\ layout = AfterConstruction.layout
    /\ frames = AfterConstruction.frames
    /\ geometryRan = NoRun
    /\ lastCall = NoCall
    /\ ops = 0
    /\ panel = P
    /\ focus = Body
    /\ panelTimers = <<>>
    /\ ticks = 0
    /\ exported = NothingExported
    /\ importOutcome = NoImport
    /\ syncIntervals = IF P.syncTimer = 0 THEN {} ELSE {P.syncTimer}
    /\ clearedSince = {}
    /\ shrunk = <<>>
    /\ repeated = FALSE

\* the page with its two diagrams and no control panel
Init == InitWith(NoPanel)

\* the same page with the control panel of target X
PanelInit ==
    InitWith(startPanelSync(initControlPanelForTarget(AfterConstruction, PanelTarget), {}).P)

\* --------------------------------------------------------- inputs
F1 == <<Entry(1, Num(3), Num(2))>>

F2 == <<Entry(1, Num(3), Num(2)), Entry(2, Num(0), Num(0)), Entry(5, Num(-1), Num(0))>>

F3 == <<Entry(7, Num(1), Num(1)), Entry(2, NoneStr, Num(0)), Entry(2, Num(2), Num(1))>>

\* two entries for one string
F4 == <<Entry(2, Num(1), Num(1)), Entry(2, Num(3), Num(3))>>

ChordInputs == <<[fingering |-> F1], [fingering |-> F2], [fingering |-> F3], [fingering |-> F4]>>

SettingsAInputs ==
    <<[numStrings |-> 4], [numStrings |-> 6], [stringType |-> "2"], [dotTextMode |-> "finger"]>>

SettingsBInputs ==
    <<[fretboardBindingDisplay |-> FALSE],
      [cssVariables |-> ("--string-1-default-color" :> "red")],
      [cssVariables |-> ("--string-1-default-color" :> "no-image")]>>

SettingsCInputs ==
    <<[fingering |-> F1], [fingering |-> <<>>], [startFret |-> 3],
      [name |-> "Am", root |-> "A"]>>

\* wrappers the user clicks: <<fret, string>>
ClickCells == {<<0, 1>>, <<3, 1>>, <<2, 5>>}

ThemeNames == {"dark", "missing", "constructor"}

InstrumentNames == {"bass", "missing", "constructor"}

\* a target id that no init was called for
AbsentTarget == "Z"

\* what the calls for the absent target are given
AbsentAInputs == <<[dotTextMode |-> "finger"]>>

AbsentBInputs == <<[cssVariables |-> ("--string-1-default-color" :> "red")]>>

AbsentCInputs == <<[name |-> "Am", root |-> "A"]>>

\* the configurations given to init when a page initialises a diagram
\* again: with and without catalogs, with and without explicit groups
InitConfigs ==
    <<[themes |-> ThemeCatalog, instruments |-> InstrumentCatalog],
      [themes |-> <<ThemeCatalog[2], ThemeCatalog[1]>>,
       settingsGroupB |-> [cssVariables |-> ("--fretboard-color" :> "red")]],
      [themes |-> <<ThemeCatalog[2], ThemeCatalog[1]>>,
       settingsGroupB |-> [fretboardBindingDisplay |-> TRUE,
                           cssVariables |-> ("--string-1-default-color" :> "no-image"),
                           customCSS |-> ".x{}"]],
      [instruments |-> <<InstrumentCatalog[2], InstrumentCatalog[1]>>,
       settingsGroupA |-> [numStrings |-> 6, dotTextMode |-> "finger"]],
      [instruments |-> <<InstrumentCatalog[2], InstrumentCatalog[1]>>],
      [settingsGroupA |-> [cssVariables |-> ("--dot-size" :> "no-image")],
       settingsGroupB |-> [fretMarkers |-> (3 :> "single")]]>>

\* the configurations given to applyImportedConfig
ImportConfigs ==
    <<[settingsGroupC |-> [fingering |-> F1]],
      [settingsGroupA |-> [dotTextMode |-> "finger"],
       settingsGroupB |-> [fretboardBindingDisplay |-> FALSE]]>>

\* what the codec is given: string values with the characters the exporter
\* and the parser treat specially
CodecClickCells == {<<3, 1>>, <<0, 2>>}

CodecAInputs ==
    <<[cssVariables |-> ("--fretboard-color" :> "a\\q")],
      [tuning |-> (1 :> "it's")]>>

CodecBInputs ==
    <<[customCSS |-> "x\ny"], [customCSS |-> "a/*b*/c"], [customCSS |-> "a//b"],
      [cssVariables |-> ("--string-1-default-color" :> "it's")]>>

\* a chord with a muted string, and a string with both of its open-position
\* markers
F5 == <<Entry(1, Num(3), Num(2)), Entry(2, Num(0), Num(0)), Entry(2, Num(-1), Num(0)),
        Entry(5, Num(-1), Num(0))>>

CodecChordInputs == <<[fingering |-> F5]>>

CodecCInputs == <<[name |-> "Am", root |-> "A"], [name |-> "A\"m"]>>

\* texts pasted in the import textarea
PastedTexts ==
    <<<<SP>>,
      <<"hello">>,
      <<"Fretboard.init", "(", ")">>,
      <<"{", "a", ":", "{">>,
      <<"{", "a", ":", "x", "}">>,
      <<"Fretboard.init", "(", "{", "a", ":", "Fretboard.clearChord", "(", ")", ",", SP,
        "b", ":", "x", "}", ")">>,
      <<"{", "settingsGroupZ", ":", "1", "}">>,
      <<"{", "settingsGroupC", ":", "{", "name", ":", Q2, "Am", Q2, "}", "}">>>>

\* what the panel's user and the page's scripts do
PanelClickCells == {<<3, 1>>, <<2, 5>>}

PanelChordInputs == <<[fingering |-> F1]>>

PanelAInputs == <<[dotTextMode |-> "finger"], [numStrings |-> 7]>>

PanelBInputs == <<[cssVariables |-> ("--string-1-default-color" :> "red")]>>

DotTextModes == {"note", "finger"}

ChordNames == {"Am"}

StringColors == {"blue", "no-image"}

PickerColors == {"#ff0000"}

\* ---------------------------------------------------------- actions
Called(op, t, arg) ==
    /\ lastCall' = [op |-> op, target |-> t, arg |-> arg]
    /\ ops' = ops + 1
    /\ clearedSince' = IF op = "clearChord" THEN clearedSince \cup {t}
                       ELSE IF op \in {"click", "displayChord", "updateSettingsGroupC"}
                       THEN clearedSince \ {t}
                       ELSE IF op = "import" THEN {}
                       ELSE clearedSince
    /\ repeated' = (lastCall.op = op /\ lastCall.target = t /\ lastCall.arg = arg)
    /\ shrunk' = IF /\ op = "updateSettingsGroupA"
                    /\ Has(arg, "numStrings")
                    /\ Has(dom, t)
                    /\ arg.numStrings < dom[t].cols0
                 THEN <<[t |-> t, from |-> dom[t].cols0, to |-> arg.numStrings,
                         dots |-> dom[t].dots, unplayed |-> dom[t].unplayed]>>
                 ELSE <<>>

\* the new state of fretboard.js, and of the panel when the call ended in
\* FretboardControlPanel.updateFromFretboard
Commit(W0) ==
    \E W \in {W0} :
        /\ CommitStore(W)
        /\ panel' = IF PanelTarget \in W.notified
                    THEN syncPanelFromFretboard(W, panel, focus, PanelTarget)
                    ELSE panel

\* what a handler of the panel leaves: the store, the fields, its timer
Handled(h) ==
    /\ CommitStore(h.W)
    /\ panel' = h.P
    /\ panelTimers' = panelTimers \o h.timers

\* the user clicks a wrapper of a displayed row
ClickAt(t, cell, onUnplayed) ==
    /\ focus = Body
    /\ cell[1] = 0 \/ cell[1] \in dom[t].window
    /\ cell[2] <= Cols(dom[t], cell[1])
    /\ onUnplayed => cell[1] = 0
    /\ Commit(clickHandler(World, t, cell[1], cell[2], onUnplayed))
    /\ Called("click", t, [cell |-> cell, onUnplayed |-> onUnplayed])
    /\ UNCHANGED <<focus, panelTimers, ticks, exported, importOutcome, syncIntervals>>

Click(t, cell, onUnplayed) ==
    /\ ops < MaxOps
    /\ ClickAt(t, cell, onUnplayed)

\* one of a run of clicks
RapidClick(t, cell, onUnplayed) ==
    /\ ops < MaxClicks
    /\ ClickAt(t, cell, onUnplayed)

\* the oldest pending removal timer fires
TimerFire ==
    /\ timers # <<>>
    /\ Commit(fireTimer(World))
    /\ UNCHANGED <<lastCall, ops, clearedSince, shrunk, repeated, focus, panelTimers, ticks, exported, importOutcome, syncIntervals>>

DisplayChord(chordConfig, t) ==
    /\ ops < MaxOps
    /\ Commit(displayChord(World, chordConfig, t))
    /\ Called("displayChord", t, chordConfig)
    /\ UNCHANGED <<focus, panelTimers, ticks, exported, importOutcome, syncIntervals>>

ClearChord(t) ==
    /\ ops < MaxOps
    /\ Commit(clearChord(World, t))
    /\ Called("clearChord", t, <<>>)
    /\ UNCHANGED <<focus, panelTimers, ticks, exported, importOutcome, syncIntervals>>

UpdateSettingsGroupA(settings, t) ==
    /\ ops < MaxOps
    /\ Commit(updateSettingsGroupA(World, settings, t))
    /\ Called("updateSettingsGroupA", t, settings)
    /\ UNCHANGED <<focus, panelTimers, ticks, exported, importOutcome, syncIntervals>>

UpdateSettingsGroupB(settings, t) ==
    /\ ops < MaxOps
    /\ Commit(updateSettingsGroupB(World, settings, t))
    /\ Called("updateSettingsGroupB", t, settings)
    /\ UNCHANGED <<focus, panelTimers, ticks, exported, importOutcome, syncIntervals>>

UpdateSettingsGroupC(settings, t) ==
    /\ ops < MaxOps
    /\ Commit(updateSettingsGroupC(World, settings, FALSE, t))
    /\ Called("updateSettingsGroupC", t, settings)
    /\ UNCHANGED <<focus, panelTimers, ticks, exported, importOutcome, syncIntervals>>

ApplyTheme(name, t) ==
    /\ ops < MaxOps
    /\ Commit(applyTheme(World, name, t))
    /\ Called("applyTheme", t, [name |-> name])
    /\ UNCHANGED <<focus, panelTimers, ticks, exported, importOutcome, syncIntervals>>

ApplyInstrument(name, t) ==
    /\ ops < MaxOps
    /\ Commit(applyInstrument(World, name, t))
    /\ Called("applyInstrument", t, [name |-> name])
    /\ UNCHANGED <<focus, panelTimers, ticks, exported, importOutcome, syncIntervals>>

\* Fretboard.init(config) with config.fretboardId = t and the container of t
InitDiagram(config, t) ==
    /\ ops < MaxOps
    /\ Commit(init(World, config, t))
    /\ Called("init", t, config)
    /\ UNCHANGED <<focus, panelTimers, ticks, exported, importOutcome, syncIntervals>>

ApplyImportedConfig(config, t) ==
    /\ ops < MaxOps
    /\ Commit(applyImportedConfig(World, config, t))
    /\ Called("applyImportedConfig", t, config)
    /\ UNCHANGED <<focus, panelTimers, ticks, exported, importOutcome, syncIntervals>>

\* the callback of a live setInterval of the panel.  It tests isSyncing of
\* the instance record it was set for, which for a replaced record is
\* false, and syncs the record the map holds now.
Tick(id) ==
    /\ id \in syncIntervals
    /\ panel.attached
    /\ ticks < MaxTicks
    /\ \A i \in 1..Len(panelTimers) : panelTimers[i].seen < TicksWithin(panelTimers[i].delay)
    /\ ticks' = ticks + 1
    /\ panelTimers' = [i \in 1..Len(panelTimers) |-> [panelTimers[i] EXCEPT !.seen = @ + 1]]
    /\ panel' = IF id = panel.syncTimer /\ panel.isSyncing THEN panel
                ELSE syncPanelFromFretboard(World, panel, focus, PanelTarget)
    /\ UNCHANGED <<fbVars, lastCall, ops, clearedSince, shrunk, repeated, focus, exported, importOutcome, syncIntervals>>

\* a timer set by the panel runs
PanelTimerFire(i) ==
    /\ i \in 1..Len(panelTimers)
    /\ MayFire(panelTimers, i)
    /\ panel' = firePanelTimer(World, panel, focus, panelTimers[i])
    /\ panelTimers' = Without(panelTimers, i)
    /\ UNCHANGED <<fbVars, lastCall, ops, clearedSince, shrunk, repeated, focus, ticks, exported, importOutcome, syncIntervals>>

\* the user puts the cursor in a field of the panel
FocusField(field) ==
    /\ ops < MaxOps
    /\ panel.attached
    /\ focus = Body
    /\ focus' = field
    /\ Called("focus", PanelTarget, [field |-> field])
    /\ UNCHANGED <<fbVars, panel, panelTimers, ticks, exported, importOutcome, syncIntervals>>

\* the focus leaves the field that had it
Blur ==
    /\ ops < MaxOps
    /\ focus # Body
    /\ focus' = Body
    /\ IF focus = "string_color_1"
       THEN Handled(stringColorBlurred(World, panel))
       ELSE UNCHANGED <<fbVars, panel, panelTimers>>
    /\ Called("blur", PanelTarget, [field |-> focus])
    /\ UNCHANGED <<ticks, exported, importOutcome, syncIntervals>>

\* the user picks another option of the dotTextMode select
ChangeDotTextMode(newValue) ==
    /\ ops < MaxOps
    /\ panel.attached
    /\ focus \in {Body, "dotTextMode"}
    /\ newValue # panel.dotTextMode
    /\ Handled(dotTextModeChanged(World, panel, newValue))
    /\ focus' = "dotTextMode"
    /\ Called("change", PanelTarget, [field |-> "dotTextMode", value |-> newValue])
    /\ UNCHANGED <<ticks, exported, importOutcome, syncIntervals>>

\* the user types a chord name and presses Enter
ChangeChordName(value) ==
    /\ ops < MaxOps
    /\ panel.attached
    /\ focus \in {Body, "chordName"}
    /\ value # panel.chordName
    /\ Handled(chordNameChanged(World, panel, value))
    /\ focus' = "chordName"
    /\ Called("change", PanelTarget, [field |-> "chordName", value |-> value])
    /\ UNCHANGED <<ticks, exported, importOutcome, syncIntervals>>

\* the user types a colour for string 1 and presses Enter
ChangeStringColor(value) ==
    /\ ops < MaxOps
    /\ panel.attached
    /\ focus \in {Body, "string_color_1"}
    /\ value # panel.stringColor[1]
    /\ Handled(stringColorChanged(World, panel, value))
    /\ focus' = "string_color_1"
    /\ Called("change", PanelTarget, [field |-> "string_color_1", value |-> value])
    /\ UNCHANGED <<ticks, exported, importOutcome, syncIntervals>>

\* the user picks a tuning label colour
PickTuningLabelColor(newHex) ==
    /\ ops < MaxOps
    /\ panel.attached
    /\ focus \in {Body, "--tuning-label-color_color"}
    /\ newHex # panel.tuningLabelColor.hex
    /\ Handled(tuningLabelColorPicked(World, panel, newHex))
    /\ focus' = "--tuning-label-color_color"
    /\ Called("change", PanelTarget, [field |-> "--tuning-label-color_color", value |-> newHex])
    /\ UNCHANGED <<ticks, exported, importOutcome, syncIntervals>>

\* the export button, and the groups ticked in the modal
ExportCode(includeGroupA, includeGroupB, includeGroupC) ==
    /\ ops < MaxOps
    /\ panel.attached
    /\ focus = Body
    /\ exported' = [made |-> TRUE, state |-> getCurrentFretboardState(World, PanelTarget),
                    includeGroupA |-> includeGroupA, includeGroupB |-> includeGroupB,
                    includeGroupC |-> includeGroupC]
    /\ Called("export", PanelTarget, <<includeGroupA, includeGroupB, includeGroupC>>)
    /\ UNCHANGED <<fbVars, panel, focus, panelTimers, ticks, importOutcome, syncIntervals>>

\* the import button, with the given text in the textarea
ImportCode(text) ==
    /\ ops < MaxOps
    /\ panel.attached
    /\ focus = Body
    /\ \E r \in {importClick(World, text)} :
           /\ Commit(r.W)
           /\ importOutcome' = r.outcome
           /\ panelTimers' = IF r.timer
                             THEN Append(panelTimers,
                                         GuardTimer("sync", "", "import", 500))
                             ELSE panelTimers
    /\ Called("import", PanelTarget, [before |-> Snapshot(World), text |-> text])
    /\ UNCHANGED <<focus, ticks, exported, syncIntervals>>

\* FretboardControlPanel.initForTarget(panelElement, targetId) for a target
\* that has a panel already: a new instance record replaces the one in the
\* map, the panel is built again and startPanelSync runs for the new record.
\* Timers of the handlers of the replaced fields act on the replaced record.
InitForTarget ==
    /\ ops < MaxOps
    /\ panel.attached
    /\ Cardinality(syncIntervals) < MaxPanels
    /\ \E r \in {startPanelSync(initControlPanelForTarget(World, PanelTarget),
                                 syncIntervals)} :
           /\ panel' = r.P
           /\ syncIntervals' = r.live
    /\ focus' = Body
    /\ panelTimers' = SelectSeq(panelTimers, LAMBDA tm : tm.kind = "sync")
    /\ Called("initForTarget", PanelTarget, <<>>)
    /\ UNCHANGED <<fbVars, ticks, exported, importOutcome>>

\* the browser runs the requestAnimationFrame callbacks queued so far
AnimationFrame ==
    /\ frames # <<>>
    /\ Commit(animationFrame(World))
    /\ UNCHANGED <<lastCall, ops, clearedSince, shrunk, repeated, focus, panelTimers, ticks, exported, importOutcome, syncIntervals>>

\* the page is laid out again: the container of t is hidden (height 0) or
\* shown; no code of the diagram listens to it
Relayout(t, height) ==
    /\ height # layout[t]
    /\ Commit([World EXCEPT !.layout[t] = height])
    /\ UNCHANGED <<lastCall, ops, clearedSince, shrunk, repeated, focus, panelTimers, ticks, exported, importOutcome, syncIntervals>>

Next ==
    \/ \E t \in Targets, cell \in ClickCells, onUnplayed \in BOOLEAN : Click(t, cell, onUnplayed)
    \/ TimerFire
    \/ \E i \in 1..Len(ChordInputs), t \in Targets : DisplayChord(ChordInputs[i], t)
    \/ \E t \in Targets : ClearChord(t)
    \/ \E i \in 1..Len(SettingsAInputs), t \in Targets :
           UpdateSettingsGroupA(SettingsAInputs[i], t)
    \/ \E i \in 1..Len(SettingsBInputs), t \in Targets :
           UpdateSettingsGroupB(SettingsBInputs[i], t)
    \/ \E i \in 1..Len(SettingsCInputs), t \in Targets :
           UpdateSettingsGroupC(SettingsCInputs[i], t)
    \/ \E name \in ThemeNames, t \in Targets : ApplyTheme(name, t)
    \/ \E name \in InstrumentNames, t \in Targets : ApplyInstrument(name, t)
    \/ \E i \in 1..Len(ImportConfigs), t \in Targets : ApplyImportedConfig(ImportConfigs[i], t)
    \/ \E i \in 1..Len(AbsentAInputs) : UpdateSettingsGroupA(AbsentAInputs[i], AbsentTarget)
    \/ \E i \in 1..Len(AbsentBInputs) : UpdateSettingsGroupB(AbsentBInputs[i], AbsentTarget)
    \/ \E i \in 1..Len(AbsentCInputs) : UpdateSettingsGroupC(AbsentCInputs[i], AbsentTarget)
    \/ \E name \in ThemeNames : ApplyTheme(name, AbsentTarget)
    \/ \E name \in InstrumentNames : ApplyInstrument(name, AbsentTarget)
    \/ \E i \in 1..Len(ImportConfigs) : ApplyImportedConfig(ImportConfigs[i], AbsentTarget)

\* the diagrams alone: the page has no control panel
Spec == Init /\ [][Next]_vars

\* a page that initialises its diagrams again, with presets
InitNext ==
    \/ \E i \in 1..Len(InitConfigs), t \in Targets : InitDiagram(InitConfigs[i], t)
    \/ \E name \in ThemeNames, t \in Targets : ApplyTheme(name, t)
    \/ \E i \in 1..Len(SettingsBInputs), t \in Targets :
           UpdateSettingsGroupB(SettingsBInputs[i], t)

InitSpec == Init /\ [][InitNext]_vars

\* updates that carry custom properties, by one group or the other
GeometryAInputs ==
    <<[cssVariables |-> ("--dot-size" :> "30px")],
      [cssVariables |-> ("--fret-0-height" :> "0px")],
      [cssVariables |-> ("--fret-0-height" :> "30px")],
      [cssVariables |-> ("--header-height" :> "500px")],
      [cssVariables |-> ("--header-height" :> "30px")],
      [cssVariables |-> ("--dot-text-color" :> "red")]>>

GeometryBInputs ==
    <<[cssVariables |-> ("--fretboard-height" :> "500px")],
      [cssVariables |-> ("--string-1-default-color" :> "red")]>>

\* fret windows: frets 3..6, frets 22..24, and one past the last row
GeometryCInputs == <<[startFret |-> 3], [startFret |-> 22], [startFret |-> 25]>>

LayoutHeights == {0, LaidOutHeight}

\* the geometry of the rows: settings, layout and animation frames
GeometryNext ==
    \/ \E i \in 1..Len(GeometryAInputs), t \in Targets :
           UpdateSettingsGroupA(GeometryAInputs[i], t)
    \/ \E i \in 1..Len(GeometryBInputs), t \in Targets :
           UpdateSettingsGroupB(GeometryBInputs[i], t)
    \/ \E i \in 1..Len(GeometryCInputs), t \in Targets :
           UpdateSettingsGroupC(GeometryCInputs[i], t)
    \/ AnimationFrame
    \/ \E t \in Targets, height \in LayoutHeights : Relayout(t, height)

GeometrySpec == Init /\ [][GeometryNext]_vars

\* entries whose finger is the text 'none', and a negative number
F6 == <<Entry(1, Num(3), NoneStr), Entry(2, Num(0), Num(0))>>

F7 == <<Entry(2, Num(1), Num(-1))>>

FingerChordInputs == <<[fingering |-> F1], [fingering |-> F6], [fingering |-> F7]>>

\* chords applied by script and markers placed by hand
FingerNext ==
    \/ \E i \in 1..Len(FingerChordInputs), t \in Targets :
           DisplayChord(FingerChordInputs[i], t)
    \/ \E i \in 1..Len(FingerChordInputs), t \in Targets :
           UpdateSettingsGroupC(FingerChordInputs[i], t)
    \/ \E t \in Targets, cell \in ClickCells, onUnplayed \in BOOLEAN : Click(t, cell, onUnplayed)
    \/ TimerFire
    \/ \E t \in Targets : ClearChord(t)

FingerSpec == Init /\ [][FingerNext]_vars

\* string counts of the range the control of the panel allows, 1..20
StringCountInputs ==
    <<[numStrings |-> 1], [numStrings |-> 10], [numStrings |-> 11], [numStrings |-> 20]>>

\* wrappers of the first and of the eleventh string
StringClickCells == {<<0, 1>>, <<3, 1>>, <<0, 11>>, <<3, 11>>}

\* the number of strings changes and markers are placed
StringsNext ==
    \/ \E i \in 1..Len(StringCountInputs), t \in Targets :
           UpdateSettingsGroupA(StringCountInputs[i], t)
    \/ \E t \in Targets, cell \in StringClickCells : Click(t, cell, FALSE)
    \/ TimerFire

StringsSpec == Init /\ [][StringsNext]_vars

\* partials of group B.  Style texts: one rule, two rules, a selector list,
\* an at-rule block, none.
SkinInputs ==
    <<[customCSS |-> ".a{c}"], [customCSS |-> ".a{c} .b{c}"], [customCSS |-> ".a, .b{c}"],
      [customCSS |-> "@media m{.a{c}}"], [customCSS |-> ""],
      [fretMarkers |-> (3 :> "single")],
      [fretboardBindingDisplay |-> FALSE],
      [cssVariables |-> ("--marker-dot-background-image" :> "none")],
      [cssVariables |-> ("--string-1-default-color" :> "no-image"), customCSS |-> ".a{c}"]>>

\* the skin of the targets is changed, by settings and by themes
SkinNext ==
    \/ \E i \in 1..Len(SkinInputs), t \in Targets :
           UpdateSettingsGroupB(SkinInputs[i], t)
    \/ \E name \in ThemeNames, t \in Targets : ApplyTheme(name, t)

SkinSpec == Init /\ [][SkinNext]_vars

\* object literals whose chord name is a string with a comment sequence, a
\* brace, an escaped quote or an escaped backslash in it, each with the
\* value JavaScript gives the name
StringTexts ==
    <<[text |-> <<"{", "settingsGroupC", ":", "{", "name", ":",
                  Q2, "a", "/", "*", "b", "*", "/", "c", Q2, "}", "}">>,
       name |-> "a/*b*/c"],
      [text |-> <<"{", "settingsGroupC", ":", "{", "name", ":",
                  Q2, "a", "/", "/", "b", Q2, ",", SP, "/", "/", SP, "it", Q1, "s", NL,
                  "root", ":", Q2, "A", Q2, "}", "}">>,
       name |-> "a//b"],
      [text |-> <<"{", "settingsGroupC", ":", "{", "name", ":",
                  Q2, "a", BS, BS, Q2, "}", "}">>,
       name |-> "a\\"],
      [text |-> <<"{", "settingsGroupC", ":", "{", "name", ":",
                  Q2, "a", "}", "b", Q2, "}", "}">>,
       name |-> "a}b"],
      [text |-> <<"{", "settingsGroupC", ":", "{", "name", ":",
                  Q2, "a", BS, Q2, "b", Q2, "}", "}">>,
       name |-> "a\"b"]>>

\* codes with strings are pasted and imported
ParseNext ==
    \/ \E i \in 1..Len(StringTexts) : ImportCode(StringTexts[i].text)
    \/ \E i \in 1..Len(CodecCInputs) : UpdateSettingsGroupC(CodecCInputs[i], PanelTarget)
    \/ \E cell \in CodecClickCells : Click(PanelTarget, cell, FALSE)
    \/ TimerFire
    \/ \E i \in 1..Len(panelTimers) : PanelTimerFire(i)

ParseSpec == PanelInit /\ [][ParseNext]_vars

\* the export and import modals of the panel
CodecNext ==
    \/ \E cell \in CodecClickCells : Click(PanelTarget, cell, FALSE)
    \/ TimerFire
    \/ \E i \in 1..Len(CodecChordInputs) : DisplayChord(CodecChordInputs[i], PanelTarget)
    \/ \E i \in 1..Len(CodecAInputs) : UpdateSettingsGroupA(CodecAInputs[i], PanelTarget)
    \/ \E i \in 1..Len(CodecBInputs) : UpdateSettingsGroupB(CodecBInputs[i], PanelTarget)
    \/ \E i \in 1..Len(CodecCInputs) : UpdateSettingsGroupC(CodecCInputs[i], PanelTarget)
    \/ \E a \in BOOLEAN, b \in BOOLEAN, c \in BOOLEAN : ExportCode(a, b, c)
    \/ \E i \in 1..Len(PastedTexts) : ImportCode(PastedTexts[i])
    \/ exported.made /\ ImportCode(ExportedCode)
    \/ \E i \in 1..Len(panelTimers) : PanelTimerFire(i)

CodecSpec == PanelInit /\ [][CodecNext]_vars

\* the fields of the panel, the user and the sync interval
PanelNext ==
    \/ \E cell \in PanelClickCells : Click(PanelTarget, cell, FALSE)
    \/ TimerFire
    \/ \E i \in 1..Len(PanelChordInputs) : DisplayChord(PanelChordInputs[i], PanelTarget)
    \/ \E i \in 1..Len(PanelAInputs) : UpdateSettingsGroupA(PanelAInputs[i], PanelTarget)
    \/ \E i \in 1..Len(PanelBInputs) : UpdateSettingsGroupB(PanelBInputs[i], PanelTarget)
    \/ \E field \in FocusableFields : FocusField(field)
    \/ Blur
    \/ \E newValue \in DotTextModes : ChangeDotTextMode(newValue)
    \/ \E value \in ChordNames : ChangeChordName(value)
    \/ \E value \in StringColors : ChangeStringColor(value)
    \/ \E newHex \in PickerColors : PickTuningLabelColor(newHex)
    \/ \E id \in syncIntervals : Tick(id)
    \/ \E i \in 1..Len(panelTimers) : PanelTimerFire(i)

PanelSpec == PanelInit /\ [][PanelNext]_vars

\* the panel is initialised again while the page lives
LifecycleNext ==
    \/ \E cell \in PanelClickCells : Click(PanelTarget, cell, FALSE)
    \/ TimerFire
    \/ \E i \in 1..Len(PanelAInputs) : UpdateSettingsGroupA(PanelAInputs[i], PanelTarget)
    \/ \E field \in FocusableFields : FocusField(field)
    \/ InitForTarget
    \/ \E id \in syncIntervals : Tick(id)

LifecycleSpec == PanelInit /\ [][LifecycleNext]_vars

\* ----------------------------------------------------------- getters
\* getSettingsGroupA(): takes no target, returns a copy of the one store
getSettingsGroupA == settingsGroupA

getSettingsGroupB == settingsGroupB

getSettingsGroupC == settingsGroupC

\* ------------------------------------------------------------ claims
Range(f) == {f[i] : i \in DOMAIN f}

\* the entries of a fingering array that name a fret and a string the
\* target has
ValidEntries(E, D) ==
    {E[i] : i \in {j \in 1..Len(E) :
                      /\ E[j].fret.k = "num"
                      /\ E[j].fret.v >= -1 /\ E[j].fret.v <= NumFretRows
                      /\ E[j].string >= 1
                      /\ E[j].string <= Cols(D, IF E[j].fret.v < 0 THEN 0 ELSE E[j].fret.v)}}

\* C1: after displayChord(E) on a target, from any prior dot state, once
\* every pending removal timer has fired the fingering derived from the
\* target's dots is the set of valid entries of E, string, fret and finger
\* preserved.
C1_DisplayRoundTrip ==
    (lastCall.op = "displayChord" /\ timers = <<>>)
        => Range(getFingeringFromDotState(dom[lastCall.target]))
               = ValidEntries(lastCall.arg.fingering, dom[lastCall.target])

\* a step that is a call of updateSettingsGroupA changing the structure
StructuralChange ==
    /\ ops' # ops
    /\ lastCall'.op = "updateSettingsGroupA"
    /\ Has(lastCall'.arg, "numStrings") \/ Has(lastCall'.arg, "stringType")

\* C2: when updateSettingsGroupA changes numStrings or stringType, every
\* marker that was active before on a string that still exists (a dot at
\* any fret, or the muted marker at the open position) is active after the
\* regeneration at the same string and fret.
C2_StructuralChangeKeepsMarkers ==
    [][StructuralChange =>
          /\ \A p \in dom[lastCall'.target].dots :
                 p[2] <= Cols(dom'[lastCall'.target], p[1])
                     => p \in dom'[lastCall'.target].dots
          /\ \A s \in dom[lastCall'.target].unplayed :
                 s <= dom'[lastCall'.target].cols0
                     => s \in dom'[lastCall'.target].unplayed]_vars

\* C3: updateSettingsGroupC({fingering: F}, false, target) with a non-empty
\* F applies F: once the removal timers have fired the derived fingering of
\* the target is the set of valid entries of F.
C3_FingeringApplied ==
    (/\ lastCall.op = "updateSettingsGroupC"
     /\ Has(lastCall.arg, "fingering")
     /\ timers = <<>>)
        => (Len(lastCall.arg.fingering) > 0
               => Range(getFingeringFromDotState(dom[lastCall.target]))
                      = ValidEntries(lastCall.arg.fingering, dom[lastCall.target]))

\* what the getters and the rendered rows report for a target
ReportedFor(y) ==
    [A |-> getSettingsGroupA, B |-> getSettingsGroupB, C |-> getSettingsGroupC,
     window |-> dom[y].window, cols0 |-> dom[y].cols0, colsN |-> dom[y].colsN]

StoreCalls ==
    {"updateSettingsGroupA", "updateSettingsGroupB", "updateSettingsGroupC",
     "applyTheme", "applyInstrument"}

\* C4: a call of updateSettingsGroupA/B/C, applyTheme or applyInstrument
\* addressed to one target leaves the settings groups reported for every
\* other target, and that target's fret window and columns, unchanged.
C4_TargetsOwnTheirSettings ==
    [][(ops' # ops /\ lastCall'.op \in StoreCalls)
          => \A y \in Targets \ {lastCall'.target} : ReportedFor(y)' = ReportedFor(y)]_vars

\* what parseExportCode makes of the text generateExportCode writes for
\* the snapshot and the groups the export modal was opened with
RoundTrip ==
    parseExportCode(generateExportCode(exported.state, PanelTarget, exported.includeGroupA,
                                       exported.includeGroupB, exported.includeGroupC))

IncludedGroups ==
    {g \in {"settingsGroupA", "settingsGroupB", "settingsGroupC"} :
        \/ g = "settingsGroupA" /\ exported.includeGroupA
        \/ g = "settingsGroupB" /\ exported.includeGroupB
        \/ g = "settingsGroupC" /\ exported.includeGroupC}

\* a field of a group as a value that ignores the order of the entries;
\* of a fingering, the entries that name a fret
FieldValue(group, key) ==
    IF key = "fingering"
    THEN {f \in Range(group[key]) : ExportValid(f)}
    ELSE group[key]

\* C5: for a snapshot S with at least one valid fingering entry and every
\* choice of included groups, parseExportCode(generateExportCode(S))
\* succeeds and returns, for each included group, an object whose every
\* field equals the field's value in S, whatever characters the string
\* values of S contain.
C5_ExportImportRoundTrip ==
    (/\ exported.made
     /\ \E f \in Range(exported.state.settingsGroupC.fingering) : ExportValid(f))
        => /\ RoundTrip.ok
           /\ \A g \in IncludedGroups :
                  /\ Has(AsConfig(RoundTrip.settings), g)
                  /\ \A key \in DOMAIN AsConfig(RoundTrip.settings)[g] :
                         FieldValue(AsConfig(RoundTrip.settings)[g], key)
                             = FieldValue(exported.state[g], key)

ParseFailureCauses ==
    {"no object", "no opening brace", "unmatched braces", "evaluation", "not an object"}

\* what an import attempt must not change, read from the variables
Untouched(snapshot) == [snapshot EXCEPT !.timers = <<>>]

\* C6: a text on which parseExportCode fails gives an error whose message
\* differs per cause, the import makes no call to applyImportedConfig, and
\* the settings groups, the active selections and the dot state stay as
\* they were before the attempt.
C6_FailedImportChangesNothing ==
    /\ \A i \in DOMAIN PastedTexts, j \in DOMAIN PastedTexts :
           (/\ ~parseExportCode(PastedTexts[i]).ok
            /\ ~parseExportCode(PastedTexts[j]).ok
            /\ parseExportCode(PastedTexts[i]).cause # parseExportCode(PastedTexts[j]).cause)
               => parseExportCode(PastedTexts[i]).message
                      # parseExportCode(PastedTexts[j]).message
    /\ (lastCall.op = "import" /\ importOutcome.cause \in ParseFailureCauses)
           => /\ ~importOutcome.applied
              /\ lastCall.arg.before.timers = <<>>
                     => Untouched(Snapshot(World)) = Untouched(lastCall.arg.before)

\* the fields of the panel that show a setting of the store, by the id of
\* the element that takes the focus for them
SettingFields == {"dotTextMode", "chordName", "string_color_1", "--tuning-label-color_color"}

\* the key a handler puts in editingKey for a field
EditingKeyOf(field) ==
    IF field = "string_color_1" THEN StringColorKey(1)
    ELSE IF field = "--tuning-label-color_color" THEN TuningLabelColorKey
    ELSE field

\* what a field shows
Shown(P, field) ==
    IF field = "dotTextMode" THEN P.dotTextMode
    ELSE IF field = "chordName" THEN P.chordName
    ELSE IF field = "string_color_1" THEN P.stringColor[1]
    ELSE P.tuningLabelColor.hex

\* what a field shows when it is in step with the store; a field whose
\* setting the store does not hold is in step as it is
Stored(W, P, field) ==
    IF field = "dotTextMode" THEN W.A.dotTextMode
    ELSE IF field = "chordName" THEN (IF W.C.name = NULL THEN "" ELSE W.C.name)
    ELSE IF field = "string_color_1"
    THEN (IF StringColorKey(1) \in DOMAIN W.B.cssVariables
          THEN W.B.cssVariables[StringColorKey(1)] ELSE P.stringColor[1])
    ELSE IF TuningLabelColorKey \in DOMAIN W.B.cssVariables
            /\ W.B.cssVariables[TuningLabelColorKey] # ""
    THEN parseColorValue(W.B.cssVariables[TuningLabelColorKey]).hex
    ELSE P.tuningLabelColor.hex

\* a step in which syncPanelFromFretboard is called: a tick of the
\* interval, or the direct call that ends a click and displayChord
SyncRun ==
    \/ ticks' # ticks
    \/ ops' # ops /\ lastCall'.op \in {"click", "displayChord"}

\* C7: no run of syncPanelFromFretboard, by a tick or by a direct call,
\* writes a field while isSyncing is true, nor the field that has the
\* focus, nor the field whose key is editingKey while userEditing is true.
C7_SyncSparesProtectedFields ==
    [][SyncRun =>
          /\ panel.isSyncing => panel' = panel
          /\ \A field \in SettingFields :
                 Shown(panel', field) # Shown(panel, field)
                     => /\ focus # field
                        /\ ~(panel.userEditing /\ panel.editingKey = EditingKeyOf(field))]_vars

\* C8: a tick that fires while isSyncing is false brings every field that
\* is stale, has not the focus and is not the one being edited to the
\* stored value, whichever other field has the focus or is being edited.
C8_TickUpdatesEveryStaleField ==
    [][(ticks' # ticks /\ ~panel.isSyncing) =>
          \A field \in SettingFields :
              (/\ focus # field
               /\ ~(panel.userEditing /\ panel.editingKey = EditingKeyOf(field))
               /\ Shown(panel, field) # Stored(World, panel, field))
                  => Shown(panel', field) = Stored(World, panel, field)]_vars

\* every fingering row shows the fret and the finger derived from the
\* dots of its string, or nothing for a string without a marker
RowsShowDerived(P, D) ==
    \A i \in DOMAIN P.fret :
        IF HasEntry(getFingeringFromDotState(D), i)
        THEN /\ P.fret[i] = FretText(EntryOf(getFingeringFromDotState(D), i))
             /\ P.finger[i] = FingerText(EntryOf(getFingeringFromDotState(D), i))
        ELSE P.fret[i] = "" /\ P.finger[i] = ""

\* C9: after markers were placed and removed on the diagram, once the
\* removal timers have fired, a tick that runs with no field focused
\* leaves every string's fret and finger fields showing the derived
\* values, and empty for a string that has no marker any more.
C9_RowsFollowMarkers ==
    [][(ticks' # ticks /\ timers = <<>> /\ focus = Body /\ ~panel.isSyncing)
          => RowsShowDerived(panel', dom'[PanelTarget])]_vars

\* C10: while the guard timer a change handler set is pending, isSyncing
\* is true and, for a free-typed field, userEditing is true with
\* editingKey the key of that field.
C10_GuardHoldsUntilTimer ==
    \A i \in 1..Len(panelTimers) :
        panelTimers[i].by = "change"
            => /\ panel.isSyncing
               /\ panelTimers[i].kind = "editing"
                      => panel.userEditing /\ panel.editingKey = panelTimers[i].key

\* C11: at every moment at most one sync interval is live for the target:
\* when the instance record of the target is replaced, the interval of the
\* record before it is cleared, so the only live interval is the one the
\* current record names.
C11_OneLiveSyncInterval ==
    panel.attached => syncIntervals \subseteq {panel.syncTimer}

\* the active markers of a string: its playable dots and its muted marker
MarkersOn(D, s) ==
    {<<"dot", p[1]>> : p \in {q \in D.dots : q[2] = s}}
        \cup {<<"muted", 0>> : u \in D.unplayed \cap {s}}

\* the entries of a fingering that an entry further on supersedes
Superseded(fingering) ==
    {i \in 1..Len(fingering) :
        \E j \in (i + 1)..Len(fingering) :
            /\ fingering[j].string = fingering[i].string
            /\ fingering[i].fret.k = "num" /\ fingering[i].fret.v >= 0
            /\ fingering[j].fret.k = "num" /\ fingering[j].fret.v >= -1
            /\ fingering[j].fret # fingering[i].fret}

\* C12: once the pending removal timers have fired, every string of every
\* target has at most one active marker, and after displayChord of a
\* fingering with several entries for one string the markers of the
\* earlier entries are not active.
C12_OneMarkerPerString ==
    timers = <<>> =>
        /\ \A t \in Targets :
               \A s \in {p[2] : p \in dom[t].dots} \cup dom[t].unplayed :
                   Cardinality(MarkersOn(dom[t], s)) <= 1
        /\ lastCall.op = "displayChord" =>
               \A i \in Superseded(lastCall.arg.fingering) :
                   <<lastCall.arg.fingering[i].fret.v, lastCall.arg.fingering[i].string>>
                       \notin dom[lastCall.target].dots

\* C13: after clearChord(target), once the removal timers have fired and
\* with no click and no displayChord since, the target has no active
\* marker, whatever settings were changed between the call and the timers.
C13_ClearedStaysCleared ==
    \A t \in clearedSince :
        timers = <<>> => dom[t].dots = {} /\ dom[t].unplayed = {}

\* the snapshot of the fingering derived now is that of lastFingeringState
SameFingeringSnapshot ==
    panel.lastFingeringState
        = <<SortByString(getFingeringFromDotState(dom[PanelTarget]))>>

\* C14: a tick on which the snapshot of the derived fingering equals that
\* of lastFingeringState writes no fret or finger field of a string and
\* leaves lastFingeringState as it is.
C14_UnchangedFingeringWritesNothing ==
    [][(ticks' # ticks /\ SameFingeringSnapshot) =>
          /\ panel'.lastFingeringState = panel.lastFingeringState
          /\ \A i \in DOMAIN panel.fret \cap DOMAIN panel'.fret :
                 panel'.fret[i] = panel.fret[i] /\ panel'.finger[i] = panel.finger[i]]_vars

\* the exported text holds a fingering entry whose fret is -1
EmitsMutedEntry(code) ==
    \E i \in 1..(Len(code) - 3) :
        /\ code[i] = "fret" /\ code[i + 1] = ":" /\ code[i + 2] = SP
        /\ code[i + 3] = NumWord(-1)

\* C15: with no removal pending, every string whose muted marker is active
\* is in getFingeringFromDotState as {string, fret: -1, finger: 0}, and the
\* exported text never holds a fingering entry with fret -1.
C15_MutedDerivedNotExported ==
    /\ timers = <<>> =>
           \A s \in dom[PanelTarget].unplayed :
               Entry(s, Num(-1), Num(0))
                   \in Range(getFingeringFromDotState(dom[PanelTarget]))
    /\ exported.made => ~EmitsMutedEntry(ExportedCode)

\* the places of the exported text where the section of a group starts
SectionStarts(code, g) ==
    {i \in 1..(Len(code) - 1) : code[i] = g /\ code[i + 1] = ":"}

\* the sections of the text are those of the groups in wanted, each once,
\* in the order settingsGroupA, settingsGroupB, settingsGroupC
SectionsInOrder(code, wanted) ==
    LET groups == <<"settingsGroupA", "settingsGroupB", "settingsGroupC">>
    IN  /\ \A k \in 1..3 :
               Cardinality(SectionStarts(code, groups[k]))
                   = IF groups[k] \in wanted THEN 1 ELSE 0
        /\ \A k \in 1..3, l \in 1..3 :
               (k < l /\ groups[k] \in wanted /\ groups[l] \in wanted)
                   => \A i \in SectionStarts(code, groups[k]),
                         j \in SectionStarts(code, groups[l]) : i < j

\* the groups ticked in the modal, group C counting only when some entry
\* of the fingering passes the given test
WantedSections(Valid(_)) ==
    {g \in IncludedGroups :
        g = "settingsGroupC" =>
            \E f \in Range(exported.state.settingsGroupC.fingering) : Valid(f)}

\* C16 as stated: the settingsGroupC section is left out exactly when no
\* entry of the fingering has a number >= -1 for its fret, and the sections
\* come in the order A, B, C.
C16_SectionCFromMuted ==
    exported.made =>
        SectionsInOrder(ExportedCode,
                        WantedSections(LAMBDA f : f.fret.k = "num" /\ f.fret.v >= -1))

\* C16, amended: the settingsGroupC section is left out exactly when no
\* entry of the fingering has a number >= 0 for its fret (a muted string,
\* fret -1, does not count), and the sections that are emitted come in the
\* order settingsGroupA, settingsGroupB, settingsGroupC.
C16_SectionCFromPlayed ==
    exported.made =>
        SectionsInOrder(ExportedCode,
                        WantedSections(LAMBDA f : f.fret.k = "num" /\ f.fret.v >= 0))

\* an export of the three groups of a chord that has only muted strings,
\* and so no section for group C
C16_MutedOnlyExported ==
    /\ exported.made
    /\ IncludedGroups = {"settingsGroupA", "settingsGroupB", "settingsGroupC"}
    /\ exported.state.settingsGroupC.fingering # <<>>
    /\ \A f \in Range(exported.state.settingsGroupC.fingering) : f.fret = Num(-1)
    /\ SectionStarts(ExportedCode, "settingsGroupC") = {}

\* the group new is the group old with the partial P merged in: the keys P
\* lacks are kept, and so are the entries of cssVariables whose keys
\* P.cssVariables lacks, while each entry P.cssVariables has is stored as
\* Kept(key, value)
MergedInto(old, new, P, Kept(_, _)) ==
    /\ \A key \in (DOMAIN old) \ (DOMAIN P) : key \in DOMAIN new /\ new[key] = old[key]
    /\ Has(P, "cssVariables") =>
           /\ \A k \in (DOMAIN old.cssVariables) \ (DOMAIN P.cssVariables) :
                  k \in DOMAIN new.cssVariables
                      /\ new.cssVariables[k] = old.cssVariables[k]
           /\ \A k \in DOMAIN P.cssVariables :
                  k \in DOMAIN new.cssVariables
                      /\ new.cssVariables[k] = Kept(k, P.cssVariables[k])

\* a call of updateSettingsGroupA, B or C merges its partial in the group
MergeStep(KeptB(_, _)) ==
    /\ (ops' # ops /\ lastCall'.op = "updateSettingsGroupA")
           => MergedInto(settingsGroupA, settingsGroupA', lastCall'.arg, LAMBDA k, v : v)
    /\ (ops' # ops /\ lastCall'.op = "updateSettingsGroupB")
           => MergedInto(settingsGroupB, settingsGroupB', lastCall'.arg, KeptB)
    /\ (ops' # ops /\ lastCall'.op = "updateSettingsGroupC")
           => MergedInto(settingsGroupC, settingsGroupC', lastCall'.arg, LAMBDA k, v : v)

\* C17 as stated: every key the partial lacks keeps its value, every entry
\* of cssVariables the partial lacks keeps its value, and every entry the
\* partial has takes the partial's value.
C17_MergeTakesGivenValues ==
    [][MergeStep(LAMBDA k, v : v)]_vars

\* C17, amended: as above, except that updateSettingsGroupB stores the empty
\* string for the values 'no-image' and 'no-dot-image', and for 'none' of
\* --marker-dot-background-image.
C17_MergeTakesProcessedValues ==
    [][MergeStep(LAMBDA k, v :
                    IF v \in {"no-image", "no-dot-image"}
                       \/ (k = "--marker-dot-background-image" /\ v = "none")
                    THEN "" ELSE v)]_vars

\* updateSettingsGroupB was given 'no-image' for a custom property while the
\* store held another one
C17_NoImageMerged ==
    /\ lastCall.op = "updateSettingsGroupB"
    /\ Has(lastCall.arg, "cssVariables")
    /\ \E k \in DOMAIN lastCall.arg.cssVariables :
           /\ lastCall.arg.cssVariables[k] = "no-image"
           /\ settingsGroupB.cssVariables[k] = ""
           /\ (DOMAIN settingsGroupB.cssVariables) \ {k} # {}

\* the group a configuration supplies, none when it has no such key
Supplied(cfg, groupKey) == IF Has(cfg, groupKey) THEN cfg[groupKey] ELSE EmptyFn

\* a group of the store after a reset to the defaults and the merge of g:
\* g's value where it has one, the default otherwise, no other override
ResetTo(defaults, g) ==
    [key \in (DOMAIN defaults) \cup {"cssVariables"} |->
        IF Has(g, key) THEN g[key]
        ELSE IF key = "cssVariables" THEN EmptyFn ELSE defaults[key]]

\* C18: applyImportedConfig(cfg, target) for a target that has an instance
\* leaves every settings field at cfg's value where cfg supplies one and at
\* the built-in default otherwise: no cssVariables override, customCSS,
\* chord name or root, or tuning from before the import is left in the store.
C18_ImportResetsStore ==
    [][(ops' # ops /\ lastCall'.op = "applyImportedConfig"
            /\ Has(fretboardInstances, lastCall'.target))
          => /\ settingsGroupA' = ResetTo(defaultSettingsGroupA,
                                          Supplied(lastCall'.arg, "settingsGroupA"))
             /\ Restrict(settingsGroupB', {"fretMarkers", "fretboardBindingDisplay",
                                           "cssVariables"})
                    = ResetTo(defaultSettingsGroupB, Supplied(lastCall'.arg, "settingsGroupB"))
             /\ settingsGroupB'.customCSS
                    \in IF Has(Supplied(lastCall'.arg, "settingsGroupB"), "customCSS")
                        THEN {lastCall'.arg.settingsGroupB.customCSS}
                        ELSE {UNDEF, NULL}
             /\ settingsGroupC' = Override(defaultSettingsGroupC,
                                           Supplied(lastCall'.arg, "settingsGroupC"))]_vars

\* C19: a call of updateSettingsGroupA, updateSettingsGroupB,
\* updateSettingsGroupC, applyTheme, applyInstrument or applyImportedConfig
\* for a target id that has no instance is a no-op: the settings groups, the
\* active theme and instrument and the dots of every existing target are as
\* they were.
C19_AbsentTargetNoOp ==
    [][(ops' # ops /\ ~Has(fretboardInstances, lastCall'.target))
          => /\ settingsGroupA' = settingsGroupA
             /\ settingsGroupB' = settingsGroupB
             /\ settingsGroupC' = settingsGroupC
             /\ DOMAIN fretboardInstances' = DOMAIN fretboardInstances
             /\ \A t \in DOMAIN fretboardInstances :
                    /\ fretboardInstances'[t].activeTheme = fretboardInstances[t].activeTheme
                    /\ fretboardInstances'[t].activeInstrument
                           = fretboardInstances[t].activeInstrument
                    /\ dom'[t].dots = dom[t].dots
                    /\ dom'[t].unplayed = dom[t].unplayed]_vars

\* the names of the presets of a catalog
CatalogNames(catalog) == {catalog[i].name : i \in 1..Len(catalog)}

\* C20: applyTheme(name, target) with a name that is not in the theme
\* catalog of the target changes neither Settings Group B nor activeTheme;
\* with a name of the catalog it merges the theme's fretMarkers,
\* fretboardBindingDisplay, cssVariables and customCSS into Group B and sets
\* activeTheme to the name.
C20_ApplyThemeByCatalog ==
    [][(ops' # ops /\ lastCall'.op = "applyTheme"
            /\ Has(fretboardInstances, lastCall'.target))
          => LET t == lastCall'.target
                 name == lastCall'.arg.name
                 catalog == fretboardInstances[t].themes
             IN  IF name \in CatalogNames(catalog)
                 THEN /\ settingsGroupB'
                            = updateSettingsGroupB(World,
                                  ThemeB(catalog[CHOOSE i \in Lookup(catalog, name) : TRUE]),
                                  t).B
                      /\ fretboardInstances'[t].activeTheme = name
                 ELSE /\ settingsGroupB' = settingsGroupB
                      /\ fretboardInstances'[t].activeTheme
                             = fretboardInstances[t].activeTheme]_vars

\* C21: applyInstrument(name, target) with a name of the instrument catalog
\* of the target changes only tuning, numStrings and stringType of Group A
\* (dotTextMode, showFretIndicators, the cssVariables of Group A, Group B
\* and Group C are as before) and sets activeInstrument to the name; with a
\* name that is not in the catalog nothing changes.
C21_ApplyInstrumentByCatalog ==
    [][(ops' # ops /\ lastCall'.op = "applyInstrument"
            /\ Has(fretboardInstances, lastCall'.target))
          => LET t == lastCall'.target
                 name == lastCall'.arg.name
                 catalog == fretboardInstances[t].instruments
                 others == {"dotTextMode", "showFretIndicators", "cssVariables"}
             IN  IF name \in CatalogNames(catalog)
                 THEN LET instrument == catalog[CHOOSE i \in Lookup(catalog, name) : TRUE]
                      IN  /\ Restrict(settingsGroupA', others) = Restrict(settingsGroupA, others)
                          /\ settingsGroupA'.tuning = instrument.tuning
                          /\ settingsGroupA'.numStrings = instrument.numStrings
                          /\ settingsGroupA'.stringType = instrument.stringType
                          /\ settingsGroupB' = settingsGroupB
                          /\ settingsGroupC' = settingsGroupC
                          /\ fretboardInstances'[t].activeInstrument = name
                 ELSE UNCHANGED fbVars]_vars

\* the catalog a configuration supplies under the key, none when it has
\* no such key
SuppliedCatalog(cfg, key) == IF Has(cfg, key) THEN cfg[key] ELSE <<>>

\* the entries of cssVariables a group of a configuration supplies
SuppliedVariables(g) == IF Has(g, "cssVariables") THEN g.cssVariables ELSE EmptyFn

\* a call of init leaves the first preset of each catalog active and
\* applied under the explicit groups, and every field the explicit groups
\* have stored, the entries of settingsGroupB.cssVariables as Kept(key, value)
PresetThenExplicit(Kept(_, _)) ==
    (ops' # ops /\ lastCall'.op = "init")
       => LET cfg == lastCall'.arg
              t == lastCall'.target
              themes == SuppliedCatalog(cfg, "themes")
              instruments == SuppliedCatalog(cfg, "instruments")
              gA == Supplied(cfg, "settingsGroupA")
              gB == Supplied(cfg, "settingsGroupB")
          IN  /\ themes # <<>> =>
                     /\ fretboardInstances'[t].activeTheme = themes[1].name
                     /\ \A k \in (DOMAIN SuppliedVariables(themes[1]))
                                      \ (DOMAIN SuppliedVariables(gB)) :
                            /\ k \in DOMAIN settingsGroupB'.cssVariables
                            /\ settingsGroupB'.cssVariables[k] = themes[1].cssVariables[k]
                     /\ ~Has(cfg, "settingsGroupB") =>
                            \A key \in (DOMAIN themes[1])
                                        \cap {"fretMarkers", "fretboardBindingDisplay",
                                              "customCSS"} :
                                settingsGroupB'[key] = themes[1][key]
              /\ instruments # <<>> =>
                     /\ fretboardInstances'[t].activeInstrument = instruments[1].name
                     /\ ~Has(cfg, "settingsGroupA") =>
                            \A key \in (DOMAIN instruments[1])
                                        \cap {"tuning", "numStrings", "stringType"} :
                                settingsGroupA'[key] = instruments[1][key]
              /\ \A key \in (DOMAIN gA) \ {"cssVariables"} : settingsGroupA'[key] = gA[key]
              /\ \A k \in DOMAIN SuppliedVariables(gA) :
                     /\ k \in DOMAIN settingsGroupA'.cssVariables
                     /\ settingsGroupA'.cssVariables[k] = gA.cssVariables[k]
              /\ \A key \in (DOMAIN gB) \ {"cssVariables"} : settingsGroupB'[key] = gB[key]
              /\ \A k \in DOMAIN SuppliedVariables(gB) :
                     /\ k \in DOMAIN settingsGroupB'.cssVariables
                     /\ settingsGroupB'.cssVariables[k] = Kept(k, gB.cssVariables[k])

C23_RoundTripKeepsMarkers ==
    [][(/\ ops' # ops
        /\ shrunk # <<>>
        /\ lastCall'.op = "updateSettingsGroupA"
        /\ Has(lastCall'.arg, "numStrings"))
          => LET was == shrunk[1]
             IN  (lastCall'.target = was.t /\ lastCall'.arg.numStrings = was.from)
                    => /\ \A p \in was.dots : p[2] <= was.to => p \in dom'[was.t].dots
                       /\ \A s \in was.unplayed : s <= was.to => s \in dom'[was.t].unplayed
                       /\ \A p \in dom'[was.t].dots : p[2] <= was.to
                       /\ \A s \in dom'[was.t].unplayed : s <= was.to]_vars

\* C24: after any change of numStrings the per-string field groups of the
\* panel (the fingering rows and the string colour inputs) have exactly
\* numStrings entries each, at once and not only after a tick of the
\* interval.
C24_FieldGroupsFollowNumStrings ==
    panel.attached
       => /\ Len(panel.fret) = settingsGroupA.numStrings
          /\ Len(panel.finger) = settingsGroupA.numStrings
          /\ Len(panel.stringColor) = settingsGroupA.numStrings

\* ------------------------------------------------------------- C25
\* what applyFretHeights reads for target t in the state W
ActualHeight(W, t) == W.layout[t]

AvailableHeight(W, t) ==
    ActualHeight(W, t) - ComputedPx(W, "--header-height") - ComputedPx(W, "--fret-0-height")

\* container height, available height or ratio sum give no row height
NoValidGeometry(W, t) ==
    \/ ActualHeight(W, t) <= 0
    \/ AvailableHeight(W, t) <= 0
    \/ W.dom[t].window = {}

\* C25: whenever applyFretHeights ran for a target whose container height
\* or available height is <= 0, or whose ratio sum is 0, it wrote no row
\* height and a retry is scheduled for that target; and no row height is
\* ever written from an available height that is not positive.
C25_InvalidGeometryRetries ==
    /\ \A t \in geometryRan.heights :
           NoValidGeometry(World, t) =>
               /\ t \notin geometryRan.wrote
               /\ \E i \in 1..Len(frames) : frames[i] = t
    /\ \A t \in DOMAIN dom : \A f \in DOMAIN dom[t].rowHeight :
           dom[t].rowHeight[f].avail > 0

\* ------------------------------------------------------------- C26
\* the call was a settings update that carries custom properties only
CssOnlyUpdate(call) ==
    /\ call.op \in {"updateSettingsGroupA", "updateSettingsGroupB"}
    /\ DOMAIN call.arg = {"cssVariables"}
    /\ call.target \in DOMAIN dom

\* the dimension keys the statement lists
DimensionKeys ==
    {"--fretboard-width", "--fretboard-height", "--header-height", "--fret-0-height",
     "--string-thickest-width", "--string-thinnest-width", "--dot-size"}

\* C26: a settings update whose cssVariables hold no dimension-affecting
\* key neither creates the rows again nor runs applyFretHeights; one that
\* holds such a key runs applyFretHeights for the target of the update.
C26_DimensionKeysRerunHeights ==
    [][(ops' # ops /\ CssOnlyUpdate(lastCall')) =>
          IF (DOMAIN lastCall'.arg.cssVariables) \cap DimensionKeys = {}
          THEN geometryRan'.rows = {} /\ geometryRan'.heights = {}
          ELSE lastCall'.target \in geometryRan'.heights]_vars

\* ------------------------------------------------------------- C27
\* an integer >= 0, or 'none'
ValidFinger(g) == (g.k = "num" /\ g.v >= 0) \/ g.k = "none"

\* C27: every finger value in the result of getFingeringFromDotState is an
\* integer >= 0 or 'none'; a non-numeric finger of an applied entry is
\* coerced to 0 and never yields NaN.
C27_FingerValuesValid ==
    \A t \in DOMAIN dom :
        \A i \in 1..Len(getFingeringFromDotState(dom[t])) :
            ValidFinger(getFingeringFromDotState(dom[t])[i].finger)

\* ------------------------------------------------------------- C28
\* C28: after numStrings was set to a number of 1..20 for a target, every
\* fret row 0..24 of the target has exactly numStrings string columns and
\* every string index 1..numStrings has a built-in open-string pitch.
C28_RowsAndTuningCoverStrings ==
    (/\ lastCall.op = "updateSettingsGroupA"
     /\ Has(lastCall.arg, "numStrings")
     /\ lastCall.arg.numStrings \in 1..20
     /\ Has(dom, lastCall.target))
        => /\ \A fret \in 0..NumFretRows :
                  Cols(dom[lastCall.target], fret) = lastCall.arg.numStrings
           /\ \A s \in 1..lastCall.arg.numStrings : Has(TUNING, s)

\* ------------------------------------------------------------- C29
\* the text of the style tag of target t; empty when the tag was removed
StyleTagText(t) ==
    IF dom[t].customCSS = "" THEN <<>> ELSE ScopedCSS(Chars(dom[t].customCSS), t)

\* the units of the style texts that are selectors
SelectorUnits == {".a", ".b", ".x", ".fingering_dot"}

\* C29: every rule of the style text applyCustomCSS emits for a target
\* selects inside the wrapper of that target only: each selector, every
\* member of a selector list and every rule nested in an at-rule block
\* included, has the wrapper id of the target and a space before it.
C29_EverySelectorScoped ==
    \A t \in DOMAIN dom :
        \A i \in 1..Len(StyleTagText(t)) :
            StyleTagText(t)[i] \in SelectorUnits
                => /\ i >= 3
                   /\ StyleTagText(t)[i - 1] = SP
                   /\ StyleTagText(t)[i - 2] = WrapperSelector(t)

\* ------------------------------------------------------------- C30
\* C30: a call of updateSettingsGroupB(P) that follows a call with the
\* same P for the same target leaves Settings Group B as the first call
\* left it.
C30_GroupBIdempotent ==
    [][(ops' # ops /\ repeated' /\ lastCall'.op = "updateSettingsGroupB")
          => settingsGroupB' = settingsGroupB]_vars

\* the partial with a 'no-image' value and a style text was given twice
C30_SamePartialTwice ==
    /\ repeated
    /\ lastCall.op = "updateSettingsGroupB"
    /\ Has(lastCall.arg, "cssVariables")
    /\ Has(lastCall.arg, "customCSS")
    /\ settingsGroupB.customCSS = ".a{c}"
    /\ settingsGroupB.cssVariables["--string-1-default-color"] = ""

\* ------------------------------------------------------------- C31
\* the sum of the numerators of the heights written for the frets
RECURSIVE SumOfHeights(_, _)
SumOfHeights(heights, frets) ==
    IF frets = {} THEN 0
    ELSE LET f == CHOOSE g \in frets : TRUE
         IN  heights[f].num + SumOfHeights(heights, frets \ {f})

C32_StringsAreOpaque ==
    \A i \in DOMAIN StringTexts :
        (lastCall.op = "import" /\ lastCall.arg.text = StringTexts[i].text)
            => /\ importOutcome.applied
               /\ settingsGroupC.name = StringTexts[i].name

\* ------------------------------------------------------------- C33
\* tunings given to updateSettingsGroupA: one string lowered, all strings
\* of an open tuning, null
TuningInputs ==
    <<[tuning |-> (1 :> "D")],
      [tuning |-> (1 :> "D") @@ (2 :> "G") @@ (3 :> "D") @@ (4 :> "G") @@ (5 :> "B") @@ (6 :> "D")],
      [tuning |-> NullTuning]>>

\* markers are placed by hand and by chord, and the tuning changes
TuningNext ==
    \/ \E i \in 1..Len(TuningInputs), t \in Targets : UpdateSettingsGroupA(TuningInputs[i], t)
    \/ \E t \in Targets : DisplayChord([fingering |-> F2], t)
    \/ \E t \in Targets, cell \in ClickCells : Click(t, cell, FALSE)
    \/ TimerFire

TuningSpec == Init /\ [][TuningNext]_vars

\* the open note a tuning given to updateSettingsGroupA means for a string
EffectiveOpenNote(tuning, stringIndex) ==
    IF tuning = NullTuning THEN InitialTuning[stringIndex]
    ELSE IF stringIndex \in DOMAIN tuning THEN tuning[stringIndex]
    ELSE TUNING[stringIndex]

LabelFollows(tuning, t, p) ==
    TextOf(dom[t], p)
        = NoteText(getNoteAtFret(p[2] :> EffectiveOpenNote(tuning, p[2]), p[2], p[1]))

\* C33: after a tuning update through updateSettingsGroupA (a mapping, or
\* null for the built-in defaults) the note label of every active dot of
\* the target, placed by click or by displayChord, is the note of the
\* chromatic scale at (index of the effective open note of its string +
\* fret) mod 12.
C33_LabelsFollowTuning ==
    (lastCall.op = "updateSettingsGroupA" /\ Has(lastCall.arg, "tuning"))
        => \A p \in dom[lastCall.target].dots :
               LabelFollows(lastCall.arg.tuning, lastCall.target, p)

\* ------------------------------------------------------------- C34
\* the markers of target t that are left once every pending removal timer
\* has fired
MarkersAfterTimers(D, pending, t) ==
    LET els == UNION {pending[i] : i \in 1..Len(pending)}
    IN  [dots |-> D[t].dots \ {<<e.fret, e.string>> : e \in {x \in els : x.t = t /\ x.kind = "dot"}},
         unplayed |-> D[t].unplayed \ {e.string : e \in {x \in els : x.t = t /\ x.kind = "unplayed"}}]

\* C34: a click on a marker of one target changes the dot state of that
\* target only: for every other target, also for its markers on the same
\* string index, the markers left after all removal timers have fired are
\* the same before and after the click.
C34_ClickLeavesOtherTargets ==
    [][(ops' = ops + 1 /\ lastCall'.op = "click")
          => \A y \in Targets \ {lastCall'.target} :
                 MarkersAfterTimers(dom', timers', y) = MarkersAfterTimers(dom, timers, y)]_vars

\* ------------------------------------------------------------- C35
\* wrappers of one string: the open position and a fret
RapidClickCells == {<<0, 1>>, <<3, 1>>}

\* a page that is only clicked, with the removal timers firing in between
RapidNext ==
    \/ \E t \in Targets, cell \in RapidClickCells, onUnplayed \in BOOLEAN :
           RapidClick(t, cell, onUnplayed)
    \/ TimerFire

RapidSpec == Init /\ [][RapidNext]_vars

\* C35: a marker that a click has just activated is still active after all
\* pending removal timers have fired, whatever clicks and timers came
\* before on that string: no timer scheduled for an earlier deactivation
\* removes it.
C35_ActivatedMarkerSurvives ==
    [][(ops' = ops + 1 /\ lastCall'.op = "click")
          => LET t == lastCall'.target
                 left == MarkersAfterTimers(dom', timers', t)
             IN  /\ (dom'[t].dots \ dom[t].dots) \subseteq left.dots
                 /\ (dom'[t].unplayed \ dom[t].unplayed) \subseteq left.unplayed]_vars

\* ------------------------------------------------------------- C38
\* the state of the open position of a string once the removal timers have
\* fired
OpenStage(D, pending, t, s) ==
    LET left == MarkersAfterTimers(D, pending, t)
    IN  IF <<0, s>> \in left.dots THEN "open dot"
        ELSE IF s \in left.unplayed THEN "muted marker"
        ELSE "no marker"

NextOpenStage(stage) ==
    IF stage = "no marker" THEN "open dot"
    ELSE IF stage = "open dot" THEN "muted marker"
    ELSE "no marker"

\* C38: every click on the regular dot area of a string at the open
\* position moves its state one step in the cycle no marker -> open dot ->
\* muted marker -> no marker; no click is ignored, also when it arrives
\* before the removal timer of the previous click has fired.
C38_OpenPositionCycles ==
    [][(/\ ops' = ops + 1
        /\ lastCall'.op = "click"
        /\ lastCall'.arg.cell[1] = 0
        /\ ~lastCall'.arg.onUnplayed)
          => LET t == lastCall'.target
                 s == lastCall'.arg.cell[2]
             IN  OpenStage(dom', timers', t, s) = NextOpenStage(OpenStage(dom, timers, t, s))]_vars

\* ------------------------------------------------------------- C36
\* the pending guard timers that edits of free-typed fields have started
EditTimers(pending) ==
    {i \in 1..Len(pending) : pending[i].kind = "editing" /\ pending[i].by = "change"}

\* the key of the latest edit whose guard delay has not elapsed
LatestEditKey(pending) ==
    pending[CHOOSE i \in EditTimers(pending) : \A j \in EditTimers(pending) : j <= i].key

\* C36: when two edits of free-typed fields are less than one guard delay
\* apart, the timer the earlier edit started does not clear the flags:
\* after it has fired userEditing is still true and editingKey is still the
\* key of the latest edit, whose guard delay has not elapsed.
C36_EarlierTimerKeepsGuard ==
    [][(/\ \E i \in EditTimers(panelTimers) : panelTimers' = Without(panelTimers, i)
        /\ EditTimers(panelTimers') # {}
        /\ panel.userEditing
        /\ panel.editingKey = LatestEditKey(panelTimers))
          => /\ panel'.userEditing
             /\ panel'.editingKey = LatestEditKey(panelTimers')]_vars

\* ------------------------------------------------------------- C37
\* applyTheme(name, t) gets past its tests: the target has an instance
\* record, the record has themes, and the name is one of them
ThemeAccepted(instances, t, name) ==
    /\ Has(instances, t)
    /\ instances[t].themes # <<>>
    /\ Property(instances[t].themes, name) # <<>>

InstrumentAccepted(instances, t, name) ==
    /\ Has(instances, t)
    /\ instances[t].instruments # <<>>
    /\ Property(instances[t].instruments, name) # <<>>

\* C37: applyImportedConfig keeps the theme and instrument catalogs of
\* the target: a name applyTheme or applyInstrument accepted before the
\* import is still accepted after it.
C37_ImportKeepsCatalogs ==
    [][(ops' = ops + 1 /\ lastCall'.op = "applyImportedConfig")
          => LET t == lastCall'.target
             IN  /\ \A name \in ThemeNames :
                        ThemeAccepted(fretboardInstances, t, name)
                            => ThemeAccepted(fretboardInstances', t, name)
                 /\ \A name \in InstrumentNames :
                        InstrumentAccepted(fretboardInstances, t, name)
                            => InstrumentAccepted(fretboardInstances', t, name)]_vars

\* ------------------------------------------------------------- C40
\* the fields of a preset that the explicit group of the config leaves out
OmittedFields(preset, explicit, fields) ==
    {key \in fields : Has(preset, key) /\ ~Has(explicit, key)}

\* C40: after init with an instruments (themes) catalog and an explicit
\* settingsGroupA (settingsGroupB) that leaves out a field the first preset
\* has, the stored value of that field is the value of the first preset,
\* not the built-in default.
C40_OmittedFieldsKeepPreset ==
    [][(ops' = ops + 1 /\ lastCall'.op = "init")
          => LET config == lastCall'.arg
             IN  /\ (Has(config, "instruments") /\ Has(config, "settingsGroupA"))
                        => \A key \in OmittedFields(FirstPreset(config.instruments),
                                                    config.settingsGroupA,
                                                    {"tuning", "numStrings", "stringType"}) :
                               settingsGroupA'[key] = FirstPreset(config.instruments)[key]
                 /\ (Has(config, "themes") /\ Has(config, "settingsGroupB"))
                        => \A key \in OmittedFields(FirstPreset(config.themes),
                                                    config.settingsGroupB,
                                                    {"fretMarkers", "fretboardBindingDisplay"}) :
                               settingsGroupB'[key] = FirstPreset(config.themes)[key]]_vars

\* ------------------------------------------------------------- C39
\* the finger getFingeringFromDotState reports for the dot of position p
ReportedFinger(D, p) ==
    LET fingering == getFingeringFromDotState(D)
        at == CHOOSE i \in 1..Len(fingering) :
                  fingering[i].string = p[2] /\ fingering[i].fret = Num(p[1])
    IN  fingering[at].finger

\* C39: a marker a click has activated derives finger 0: a finger value
\* that an earlier displayChord attached to that position, and that has
\* been cleared or replaced since, is not reported by
\* getFingeringFromDotState.
C39_ClickedMarkerHasFingerZero ==
    [][(ops' = ops + 1 /\ lastCall'.op = "click")
          => LET t == lastCall'.target
             IN  \A p \in dom'[t].dots \ dom[t].dots :
                     ReportedFinger(dom'[t], p) = Num(0)]_vars

====
